---- MODULE Spec2Model ----
(***************************************************************************)
(* A model of the DraCor MCP adapter (src/dracor-mcp-server/server.py).    *)
(*                                                                         *)
(* The adapter is stateless: every handler is a synchronous function of    *)
(* its arguments and of the answers the upstream REST service gives to the *)
(* HTTP GETs the handler issues.  The state of the model is therefore the  *)
(* upstream service's content, the call the framework has dispatched, the  *)
(* list of upstream requests the call issued and what the call gave back.  *)
(*                                                                         *)
(* Python values are modelled as follows.                                  *)
(*   str            a sequence of one-character strings                    *)
(*   None (str)     the value None below                                   *)
(*   Optional[int]  <<>> for None, <<n>> for the integer n                 *)
(*   dict / JSON    a function whose domain is the set of keys present;    *)
(*                  d.get(k, v) is Get(d, k, v)                            *)
(*   list           a sequence                                             *)
(*   an exception   a record [type, text, about]; str(e) is Str(e)         *)
(* A computation that may raise is a record [raised, value, log]: value is *)
(* the value returned or the exception raised, log the upstream requests   *)
(* issued so far.  Then(c, LAMBDA x : ...) runs the statements that follow *)
(* c, with x naming c's outcome, unless c raised.                          *)
(***************************************************************************)
EXTENDS Integers, Sequences, FiniteSets, TLC

VARIABLES
    upstream,   \* the content of the upstream DraCor service
    request,    \* the call dispatched by the framework: [handler, args]
    requests,   \* the upstream HTTP requests issued by that call, in order
    response,   \* what the call gave back: [status, value]
    pc,         \* "idle", "pending" (dispatched) or "done" (handler returned)
    served      \* history of the calls answered so far; no handler reads it
                \* and the server keeps none of it (stateless_http=True)

vars == <<upstream, request, requests, response, pc, served>>

(***************************************************************************)
(* Bounds of the model.                                                    *)
(***************************************************************************)
\* longest string handed to the validators
MaxLen == 3
\* number of leading upstream requests of a call whose outcome is chosen freely
MaxScript == 5

(***************************************************************************)
(* Strings.                                                                *)
(***************************************************************************)
Lowercase == {"a", "b", "c", "d", "e", "f", "g", "h", "i", "j", "k", "l", "m",
              "n", "o", "p", "q", "r", "s", "t", "u", "v", "w", "x", "y", "z"}
Uppercase == {"A", "B", "C", "D", "E", "F", "G", "H", "I", "J", "K", "L", "M",
              "N", "O", "P", "Q", "R", "S", "T", "U", "V", "W", "X", "Y", "Z"}
Digits == {"0", "1", "2", "3", "4", "5", "6", "7", "8", "9"}

\* the characters strings are drawn from when the validators are explored
Alphabet == {"a", "Z", "4", "-", "_", "/", ".", " ", "\n", "Q"}

Strings(n) == UNION {[1..k -> Alphabet] : k \in 0..n}

None == <<"None">>

\* truth value of an Optional[str]: None and "" are falsy
Truthy(s) == s # None /\ s # <<>>

\* truth value of an Optional[int]: None and 0 are falsy
TruthyInt(o) == o # <<>> /\ o[1] # 0

Get(d, k, default) == IF k \in DOMAIN d THEN d[k] ELSE default

LowerChar(c) ==
    CASE c = "A" -> "a" [] c = "B" -> "b" [] c = "C" -> "c" [] c = "D" -> "d"
      [] c = "E" -> "e" [] c = "F" -> "f" [] c = "G" -> "g" [] c = "H" -> "h"
      [] c = "I" -> "i" [] c = "J" -> "j" [] c = "K" -> "k" [] c = "L" -> "l"
      [] c = "M" -> "m" [] c = "N" -> "n" [] c = "O" -> "o" [] c = "P" -> "p"
      [] c = "Q" -> "q" [] c = "R" -> "r" [] c = "S" -> "s" [] c = "T" -> "t"
      [] c = "U" -> "u" [] c = "V" -> "v" [] c = "W" -> "w" [] c = "X" -> "x"
      [] c = "Y" -> "y" [] c = "Z" -> "z" [] OTHER -> c

\* str.lower()
Lower(s) == [i \in 1..Len(s) |-> LowerChar(s[i])]

\* the Python test `sub in s` on strings
Contains(s, sub) ==
    \E i \in 0..(Len(s) - Len(sub)) :
        \A j \in 1..Len(sub) : s[i + j] = sub[j]

\* " ".join(parts)
RECURSIVE JoinSpace(_)
JoinSpace(parts) ==
    IF parts = <<>> THEN <<>>
    ELSE IF Len(parts) = 1 THEN parts[1]
    ELSE parts[1] \o <<" ">> \o JoinSpace(Tail(parts))

(***************************************************************************)
(* Computations and exceptions.                                            *)
(***************************************************************************)
Exc(type, text, about) == [type |-> type, text |-> text, about |-> about]

Str(e) == <<e.text, e.about>>

Returns(v, log) == [raised |-> FALSE, value |-> v, log |-> log]

Raises(e, log) == [raised |-> TRUE, value |-> e, log |-> log]

Then(c, Rest(_)) == IF c.raised THEN c ELSE Rest(c)

(***************************************************************************)
(* validate_name, server.py 25-38.                                         *)
(***************************************************************************)
NameChars == Lowercase \cup Uppercase \cup Digits \cup {"_", "-"}

\* VALID_NAME_PATTERN.match(name) for ^[a-zA-Z0-9_-]+$ : in Python's re, `$`
\* matches at the end of the string and also just before a newline that is
\* the last character of the string.
NameMatches(name) ==
    \E k \in 1..Len(name) :
        /\ \A i \in 1..k : name[i] \in NameChars
        /\ \/ k = Len(name)
           \/ k + 1 = Len(name) /\ name[k + 1] = "\n"

validate_name(name, param_name) ==
    IF ~Truthy(name)
    THEN Raises(Exc("ValueError", "cannot be empty", param_name), <<>>)
    ELSE IF ~NameMatches(name)
    THEN Raises(Exc("ValueError", "only alphanumeric, hyphens, underscores allowed",
                    param_name), <<>>)
    ELSE Returns(name, <<>>)

(***************************************************************************)
(* validate_wikidata_id: exercised by test_fixes.py 45-60, its definition  *)
(* is not part of server.py; modelled from section 4.1 of the              *)
(* specification (`Q` followed by one or more digits).                     *)
(***************************************************************************)
WikidataAny(wikidata_id) == Returns(wikidata_id, <<>>)

validate_wikidata_id(wikidata_id) ==
    IF /\ wikidata_id # None
       /\ Len(wikidata_id) >= 2
       /\ wikidata_id[1] = "Q"
       /\ \A i \in 2..Len(wikidata_id) : wikidata_id[i] \in Digits
    THEN Returns(wikidata_id, <<>>)
    ELSE Raises(Exc("ValueError", "Invalid Wikidata ID", "wikidata_id"), <<>>)

(***************************************************************************)
(* The upstream service.                                                   *)
(*                                                                         *)
(* upstream.corpora is the list of corpora; a corpus is [name, plays]; a   *)
(* play is a record of everything the service can be asked about it:       *)
(*   summary   the play object listed in corpora/{c} and, with segments    *)
(*             and characters added, served by corpora/{c}/plays/{p}       *)
(*   cast      the list served by .../characters                           *)
(*   metrics, byChar, relations  the JSON served by .../metrics,           *)
(*             .../spoken-text-by-character, .../relations                 *)
(*   spoken, stage               the texts of .../spoken-text and          *)
(*             .../stage-directions                                        *)
(*   network, relationsCsv       the CSV bodies, a sequence of lines,      *)
(*             each a sequence of cells                                    *)
(*   tei       the TEI document of .../tei                                 *)
(* upstream.wikidata maps the known Wikidata ids to their play lists.      *)
(***************************************************************************)
Ep(kind, corpus, play) == [kind |-> kind, corpus |-> corpus, play |-> play]

SeqToSet(s) == {s[i] : i \in 1..Len(s)}

CorpusNamed(up, c) == {i \in 1..Len(up.corpora) : up.corpora[i].name = c}

TheCorpus(up, c) == up.corpora[CHOOSE i \in CorpusNamed(up, c) : \A j \in CorpusNamed(up, c) : i <= j]

PlayNamed(corpus, p) ==
    {i \in 1..Len(corpus.plays) : Get(corpus.plays[i].summary, "name", None) = p}

ThePlay(up, c, p) ==
    LET corpus == TheCorpus(up, c)
        found  == PlayNamed(corpus, p)
    IN  corpus.plays[CHOOSE i \in found : \A j \in found : i <= j]

CorpusKinds == {"corpus", "metadata"}

PlayKinds == {"play", "metrics", "characters", "spoken-text", "spoken-text-by-character",
              "stage-directions", "networkdata/csv", "relations", "relations/csv", "tei"}

\* does the upstream know the entity the endpoint names
Exists(up, ep) ==
    CASE ep.kind \in {"info", "corpora"} -> TRUE
      [] ep.kind \in CorpusKinds -> CorpusNamed(up, ep.corpus) # {}
      [] ep.kind \in PlayKinds ->
            /\ CorpusNamed(up, ep.corpus) # {}
            /\ PlayNamed(TheCorpus(up, ep.corpus), ep.play) # {}
      [] ep.kind = "character" -> ep.corpus \in DOMAIN up.wikidata
      [] OTHER -> FALSE

Summaries(corpus) == [i \in 1..Len(corpus.plays) |-> corpus.plays[i].summary]

\* the body the upstream serves for an endpoint it knows
Body(up, ep) ==
    CASE ep.kind = "info" -> up.info
      [] ep.kind = "corpora" -> [i \in 1..Len(up.corpora) |-> [name |-> up.corpora[i].name]]
      [] ep.kind = "corpus" ->
            [name |-> ep.corpus, plays |-> Summaries(TheCorpus(up, ep.corpus))]
      [] ep.kind = "metadata" -> Summaries(TheCorpus(up, ep.corpus))
      [] ep.kind = "play" ->
            LET play == ThePlay(up, ep.corpus, ep.play)
            IN  [k \in DOMAIN play.summary \cup {"segments", "characters"} |->
                    IF k = "segments" THEN play.segments
                    ELSE IF k = "characters" THEN play.cast
                    ELSE play.summary[k]]
      [] ep.kind = "metrics" -> ThePlay(up, ep.corpus, ep.play).metrics
      [] ep.kind = "characters" -> ThePlay(up, ep.corpus, ep.play).cast
      [] ep.kind = "spoken-text" -> ThePlay(up, ep.corpus, ep.play).spoken
      [] ep.kind = "spoken-text-by-character" -> ThePlay(up, ep.corpus, ep.play).byChar
      [] ep.kind = "stage-directions" -> ThePlay(up, ep.corpus, ep.play).stage
      [] ep.kind = "networkdata/csv" -> ThePlay(up, ep.corpus, ep.play).network
      [] ep.kind = "relations" -> ThePlay(up, ep.corpus, ep.play).relations
      [] ep.kind = "relations/csv" -> ThePlay(up, ep.corpus, ep.play).relationsCsv
      [] ep.kind = "tei" -> ThePlay(up, ep.corpus, ep.play).tei
      [] ep.kind = "character" -> up.wikidata[ep.corpus]

\* a body that is not what the endpoint documents: unparsable as JSON, not
\* well-formed as XML, arbitrary as text or CSV
Garbled(kind) ==
    CASE kind = "tei" -> [wellformed |-> FALSE]
      [] kind \in {"networkdata/csv", "relations/csv"} -> << << <<"?">> >> >>
      [] OTHER -> <<"?">>

(***************************************************************************)
(* HTTP.  The k-th request of a call is answered as the script says; a     *)
(* request past the end of the script succeeds; a request for something    *)
(* the upstream does not know is answered 404.                             *)
(***************************************************************************)
Outcomes == {"ok", "http500", "timeout", "neterr", "malformed"}

TransportFailures == {"timeout", "neterr"}

Non2xx == {"http500", "http404"}

Scripts(n, outs) == [1..n -> outs]

Env(up, script) == [up |-> up, script |-> script]

Answer(env, log, ep) ==
    IF ~Exists(env.up, ep) THEN "http404"
    ELSE IF Len(log) + 1 \in DOMAIN env.script THEN env.script[Len(log) + 1]
    ELSE "ok"

\* requests.get(url, timeout=DEFAULT_TIMEOUT): raises on a timeout or a
\* network error, otherwise gives the response (any status)
requests_get(env, log, site, ep) ==
    LET Answered(out) ==
            IF out \in TransportFailures
            THEN Raises(Exc(IF out = "timeout" THEN "Timeout" ELSE "ConnectionError",
                            out, ep.kind),
                        Append(log, [ep |-> ep, out |-> out, site |-> site]))
            ELSE Returns([out |-> out, ep |-> ep],
                         Append(log, [ep |-> ep, out |-> out, site |-> site]))
    IN  Answered(Answer(env, log, ep))

\* response.raise_for_status(), on the outcome of requests.get
StatusIgnored(got) == got

raise_for_status(got) ==
    IF got.value.out \in Non2xx
    THEN Raises(Exc("HTTPError", got.value.out, got.value.ep.kind), got.log)
    ELSE got

\* response.json()
response_json(env, got) ==
    IF got.value.out = "malformed"
    THEN Raises(Exc("JSONDecodeError", "Expecting value", got.value.ep.kind), got.log)
    ELSE Returns(Body(env.up, got.value.ep), got.log)

\* response.text
response_text(env, got) ==
    Returns(IF got.value.out = "malformed" THEN Garbled(got.value.ep.kind)
            ELSE Body(env.up, got.value.ep),
            got.log)

\* api_request, server.py 61-66
api_request(env, log, site, ep) ==
    Then(requests_get(env, log, site, ep), LAMBDA got :
    Then(raise_for_status(got), LAMBDA checked :
         response_json(env, checked)))

\* the direct GET of a text endpoint: requests.get, raise_for_status, .text
\* (server.py 160-163 and its copies)
get_text(env, log, site, ep) ==
    Then(requests_get(env, log, site, ep), LAMBDA got :
    Then(raise_for_status(got), LAMBDA checked :
         response_text(env, checked)))

(***************************************************************************)
(* The handler boundary: try: ... except Exception as e:                   *)
(*                           return {"error": str(e)}                      *)
(***************************************************************************)
Uncontained(c) == c

Contain(c) ==
    IF c.raised THEN Returns([error |-> Str(c.value)], c.log) ELSE c

IsError(d) == "error" \in DOMAIN d

\* if "error" in x: return {"error": x["error"]}, on the outcome of a handler
\* called by another
Unless(c, Rest(_)) ==
    IF IsError(c.value) THEN Returns([error |-> c.value.error], c.log) ELSE Rest(c)

\* validate_name as a statement of a handler that has issued the requests of log
Validated(name, param_name, log) ==
    [validate_name(name, param_name) EXCEPT !.log = log]

\* validate_name(corpus_name, "corpus_name"); validate_name(play_name, "play_name")
ValidatePair(corpus_name, play_name, log) ==
    Then(Validated(corpus_name, "corpus_name", log), LAMBDA v :
         Validated(play_name, "play_name", log))

\* {key: value} of a computation's value
Wrapped(key, c) ==
    IF c.raised THEN c ELSE Returns([k \in {key} |-> c.value], c.log)

(***************************************************************************)
(* Resource accessors, server.py 69-273.                                   *)
(***************************************************************************)
\* an accessor that answers from a module-level cache: once a call has been
\* answered, it gives back the last answer and asks nothing of the upstream
get_api_info_cached(env, log, site) ==
    IF served # <<>> THEN Returns(served[Len(served)].response.value, log)
    ELSE Contain(api_request(env, log, site, Ep("info", <<>>, <<>>)))

get_api_info(env, log, site) ==
    Contain(api_request(env, log, site, Ep("info", <<>>, <<>>)))

get_corpora(env, log, site) ==
    Contain(Wrapped("corpora", api_request(env, log, site, Ep("corpora", <<>>, <<>>))))

get_corpus(env, log, site, corpus_name) ==
    Contain(Then(Validated(corpus_name, "corpus_name", log), LAMBDA v :
                 api_request(env, log, site, Ep("corpus", corpus_name, <<>>))))

get_corpus_metadata(env, log, site, corpus_name) ==
    Contain(Then(Validated(corpus_name, "corpus_name", log), LAMBDA v :
                 Wrapped("metadata",
                         api_request(env, log, site, Ep("metadata", corpus_name, <<>>)))))

get_plays(env, log, site, corpus_name) ==
    Contain(Then(Validated(corpus_name, "corpus_name", log), LAMBDA v :
            Then(api_request(env, log, site, Ep("corpus", corpus_name, <<>>)),
                 LAMBDA corpus :
                 Returns([plays |-> Get(corpus.value, "plays", <<>>)], corpus.log))))

get_play(env, log, site, corpus_name, play_name) ==
    Contain(Then(ValidatePair(corpus_name, play_name, log), LAMBDA v :
                 api_request(env, log, site, Ep("play", corpus_name, play_name))))

get_play_metrics(env, log, site, corpus_name, play_name) ==
    Contain(Then(ValidatePair(corpus_name, play_name, log), LAMBDA v :
                 api_request(env, log, site, Ep("metrics", corpus_name, play_name))))

get_characters(env, log, site, corpus_name, play_name) ==
    Contain(Then(ValidatePair(corpus_name, play_name, log), LAMBDA v :
                 Wrapped("characters",
                         api_request(env, log, site,
                                     Ep("characters", corpus_name, play_name)))))

get_spoken_text(env, log, site, corpus_name, play_name) ==
    Contain(Then(ValidatePair(corpus_name, play_name, log), LAMBDA v :
                 Wrapped("text",
                         get_text(env, log, site,
                                  Ep("spoken-text", corpus_name, play_name)))))

get_spoken_text_by_character(env, log, site, corpus_name, play_name) ==
    Contain(Then(ValidatePair(corpus_name, play_name, log), LAMBDA v :
                 Wrapped("text_by_character",
                         api_request(env, log, site,
                                     Ep("spoken-text-by-character", corpus_name,
                                        play_name)))))

get_stage_directions(env, log, site, corpus_name, play_name) ==
    Contain(Then(ValidatePair(corpus_name, play_name, log), LAMBDA v :
                 Wrapped("text",
                         get_text(env, log, site,
                                  Ep("stage-directions", corpus_name, play_name)))))

get_network_data(env, log, site, corpus_name, play_name) ==
    Contain(Then(ValidatePair(corpus_name, play_name, log), LAMBDA v :
                 Wrapped("csv_data",
                         get_text(env, log, site,
                                  Ep("networkdata/csv", corpus_name, play_name)))))

\* server.py 212-225: requests.get, raise_for_status and .json() in place
get_relations(env, log, site, corpus_name, play_name) ==
    Contain(Then(ValidatePair(corpus_name, play_name, log), LAMBDA v :
                 Wrapped("relations",
                         Then(requests_get(env, log, site,
                                           Ep("relations", corpus_name, play_name)),
                              LAMBDA got :
                         Then(raise_for_status(got), LAMBDA checked :
                              response_json(env, checked))))))

\* f"DIALOGUE:\n\n{response.text}\n\nSTAGE DIRECTIONS:\n\n{stage_response.text}"
DialogueHeader == <<"D", "I", "A", "L", "O", "G", "U", "E", ":">>

StageHeader == <<"S", "T", "A", "G", "E", " ", "D", "I", "R", "E", "C", "T", "I", "O", "N", "S", ":">>

\* a synthesis that puts a blank line before the dialogue header as well
FullTextOfLeading(spoken, stage) ==
    <<"\n", "\n">> \o DialogueHeader \o <<"\n", "\n">> \o spoken \o <<"\n", "\n">>
        \o StageHeader \o <<"\n", "\n">> \o stage

FullTextOf(spoken, stage) ==
    DialogueHeader \o <<"\n", "\n">> \o spoken \o <<"\n", "\n">> \o StageHeader
        \o <<"\n", "\n">> \o stage

get_full_text(env, log, site, corpus_name, play_name) ==
    Contain(Then(ValidatePair(corpus_name, play_name, log), LAMBDA v :
            Then(get_text(env, log, site, Ep("spoken-text", corpus_name, play_name)),
                 LAMBDA spoken :
            Then(get_text(env, spoken.log, site,
                          Ep("stage-directions", corpus_name, play_name)),
                 LAMBDA stage :
                 Returns([text |-> FullTextOf(spoken.value, stage.value)], stage.log)))))

get_tei_text(env, log, site, corpus_name, play_name) ==
    Contain(Then(ValidatePair(corpus_name, play_name, log), LAMBDA v :
                 Wrapped("tei_text",
                         get_text(env, log, site, Ep("tei", corpus_name, play_name)))))

get_plays_with_character(env, log, site, wikidata_id) ==
    Contain(Wrapped("plays",
                    api_request(env, log, site, Ep("character", wikidata_id, <<>>))))

(***************************************************************************)
(* search_plays, server.py 276-472.                                        *)
(*                                                                         *)
(* Arguments: query, corpus_name, character_name, country, language and    *)
(* author are Optional[str]; year_from and year_to are Optional[int];      *)
(* gender_filter is <<>> for None and <<word>> for the string word.        *)
(***************************************************************************)
TruthyWord(o) == o # <<>> /\ o[1] # ""

\* [a.get(key, "") for a in play.get("authors", [])]
AuthorField(play, key) ==
    LET authors == Get(play, "authors", <<>>)
    IN  [i \in 1..Len(authors) |-> Get(authors[i], key, <<>>)]

\* server.py 308-315: the corpora to search
AllCorporaTargeted(all_corpora, corpus_name) == all_corpora

TargetCorpora(all_corpora, corpus_name) ==
    IF Truthy(corpus_name)
    THEN SelectSeq(all_corpora,
                   LAMBDA corp : Contains(Lower(Get(corp, "name", <<>>)), Lower(corpus_name)))
    ELSE all_corpora

\* server.py 335-345
QueryMatches(query, play) ==
    LET searchable_text ==
            Lower(Get(play, "title", <<>>) \o <<" ">>
                  \o JoinSpace(AuthorField(play, "name")) \o <<" ">>
                  \o Get(play, "subtitle", <<>>) \o <<" ">>
                  \o Get(play, "originalTitle", <<>>))
    IN  Contains(searchable_text, Lower(query))

\* server.py 347-356
CountryMatches(country, play) ==
    LET play_country ==
            Lower(Get(play, "writtenIn", <<>>) \o <<" ">>
                  \o Get(play, "printedIn", <<>>) \o <<" ">>
                  \o JoinSpace(AuthorField(play, "country")))
    IN  Contains(play_country, Lower(country))

\* server.py 358-361
LanguageMatches(language, play) ==
    Contains(Lower(Get(play, "originalLanguage", <<>>)), Lower(language))

\* server.py 363-367
AuthorMatches(author, play) ==
    LET author_names == AuthorField(play, "name")
    IN  \E i \in 1..Len(author_names) : Contains(Lower(author_names[i]), Lower(author))

\* x or y on values that are an integer or absent (None): a present 0 is falsy
YearField(play, key) == IF key \in DOMAIN play THEN <<play[key]>> ELSE <<>>

\* server.py 371
PlayYear(play) ==
    IF TruthyInt(YearField(play, "yearNormalized")) THEN play["yearNormalized"]
    ELSE IF TruthyInt(YearField(play, "yearWritten")) THEN play["yearWritten"]
    ELSE IF TruthyInt(YearField(play, "yearPrinted")) THEN play["yearPrinted"]
    ELSE 0

\* server.py 373-377
YearMatches(year_from, year_to, play) ==
    LET play_year == PlayYear(play)
    IN  /\ ~(TruthyInt(year_from) /\ play_year < year_from[1])
        /\ ~(TruthyInt(year_to) /\ play_year > year_to[1])

\* server.py 333-377: the filters decided by the listed play object alone
ListedPlayMatches(a, play) ==
    /\ Truthy(a.query) => QueryMatches(a.query, play)
    /\ Truthy(a.country) => CountryMatches(a.country, play)
    /\ Truthy(a.language) => LanguageMatches(a.language, play)
    /\ Truthy(a.author) => AuthorMatches(a.author, play)
    /\ (TruthyInt(a.year_from) \/ TruthyInt(a.year_to))
            => YearMatches(a.year_from, a.year_to, play)

\* server.py 386-397: the verdict of the character_name check on the answer
\* of get_characters
CharacterCheck(character_name, characters_result) ==
    IF ~IsError(characters_result)
    THEN LET characters == Get(characters_result, "characters", <<>>)
         IN  \E i \in 1..Len(characters) :
                Contains(Lower(Get(characters[i], "name", <<>>)), Lower(character_name))
    ELSE FALSE

GenderCount(characters, gender) ==
    Cardinality({i \in 1..Len(characters) : Get(characters[i], "gender", "None") = gender})

\* a ratio num/den and a decimal literal tenths/10 compared exactly (Python
\* divides two small integers into the double nearest the quotient, and the
\* literals 0.4, 0.5, 0.6 are the doubles nearest 4/10, 5/10, 6/10, so the
\* float comparisons agree with the exact ones)
RatioLess(num, den, tenths) == 10 * num < tenths * den

RatioGreater(num, den, tenths) == 10 * num > tenths * den

\* server.py 409-422: the verdict of the gender_filter check on the answer
\* of get_characters
GenderCheckStrict(gender_filter, characters_result) ==
    IF ~IsError(characters_result)
    THEN LET characters   == Get(characters_result, "characters", <<>>)
             male_count   == GenderCount(characters, "MALE")
             female_count == GenderCount(characters, "FEMALE")
             total        == male_count + female_count
         IN  IF total > 0
             THEN /\ ~(gender_filter = "female_dominated"
                        /\ ~RatioGreater(female_count, total, 5))
                  /\ ~(gender_filter = "male_dominated"
                        /\ ~RatioLess(female_count, total, 5))
                  /\ ~(gender_filter = "balanced"
                        /\ (RatioLess(female_count, total, 4)
                            \/ RatioGreater(female_count, total, 6)))
             ELSE TRUE
    ELSE FALSE

GenderCheckOffByOne(gender_filter, characters_result) ==
    IF ~IsError(characters_result)
    THEN LET characters   == Get(characters_result, "characters", <<>>)
             male_count   == GenderCount(characters, "MALE")
             female_count == GenderCount(characters, "FEMALE")
             total        == male_count + female_count
         IN  IF total > 0
             THEN /\ ~(gender_filter = "female_dominated"
                        /\ RatioLess(female_count, total, 5))
                  /\ ~(gender_filter = "male_dominated"
                        /\ RatioGreater(female_count, total, 5))
                  /\ ~(gender_filter = "balanced"
                        /\ (~RatioGreater(female_count, total, 4)
                            \/ ~RatioLess(female_count, total, 6)))
             ELSE TRUE
    ELSE TRUE

GenderCheck(gender_filter, characters_result) ==
    IF ~IsError(characters_result)
    THEN LET characters   == Get(characters_result, "characters", <<>>)
             male_count   == GenderCount(characters, "MALE")
             female_count == GenderCount(characters, "FEMALE")
             total        == male_count + female_count
         IN  IF total > 0
             THEN /\ ~(gender_filter = "female_dominated"
                        /\ ~RatioGreater(female_count, total, 5))
                  /\ ~(gender_filter = "male_dominated"
                        /\ ~RatioLess(female_count, total, 5))
                  /\ ~(gender_filter = "balanced"
                        /\ (RatioLess(female_count, total, 4)
                            \/ RatioGreater(female_count, total, 6)))
             ELSE TRUE
    ELSE TRUE

\* str(x) inside an f-string
RECURSIVE Decimal(_)
Decimal(n) ==
    LET digit == <<"0", "1", "2", "3", "4", "5", "6", "7", "8", "9">>
    IN  IF n < 0 THEN <<"-">> \o Decimal(0 - n)
        ELSE IF n < 10 THEN <<digit[n + 1]>>
        ELSE Decimal(n \div 10) \o <<digit[(n % 10) + 1]>>

NoneText == <<"N", "o", "n", "e">>

Unknown == <<"U", "n", "k", "n", "o", "w", "n">>

FormatStr(s) == IF s = None THEN NoneText ELSE s

FormatInt(o) == IF o = <<>> THEN NoneText ELSE Decimal(o[1])

LinkPrefix == <<"h", "t", "t", "p", "s", ":", "/", "/", "d", "r", "a", "c", "o", "r",
                ".", "o", "r", "g", "/">>

\* server.py 443-452
DetailOf(corpus_name, play_name, play, play_info) ==
    [corpus     |-> corpus_name,
     play_name  |-> play_name,
     title      |-> Get(play, "title", None),
     author     |-> IF Get(play, "authors", <<>>) # <<>>
                    THEN Get(play.authors[1], "name", None)
                    ELSE Unknown,
     year       |-> YearField(play, "yearNormalized"),
     language   |-> Get(play, "originalLanguage", None),
     characters |-> Len(Get(play_info, "characters", <<>>)),
     link       |-> LinkPrefix \o FormatStr(corpus_name) \o <<"/">> \o FormatStr(play_name)]

\* The variables the loops of search_plays update are carried in
\* st = [corpus_name, results, detailed_results, log]; the verdict of the
\* filters on one play, with the requests issued so far, in [is_match, log].
\* get_characters and get_play contain their own failures, so the handlers
\* of lines 398-400, 423-425 and 453-454 have nothing to catch.
Verdict(is_match, log) == [is_match |-> is_match, log |-> log]

\* server.py 379-400
CharacterStep(env, a, corpus_name, play, v) ==
    LET Checked(characters_result) ==
            Verdict(CharacterCheck(a.character_name, characters_result.value),
                    characters_result.log)
    IN  IF Truthy(a.character_name) /\ v.is_match
        THEN Checked(get_characters(env, v.log, "search_plays:character_name",
                                    corpus_name, Get(play, "name", None)))
        ELSE v

\* server.py 402-425
GenderStep(env, a, corpus_name, play, v) ==
    LET Checked(characters_result) ==
            Verdict(GenderCheck(a.gender_filter[1], characters_result.value),
                    characters_result.log)
    IN  IF TruthyWord(a.gender_filter) /\ v.is_match
        THEN Checked(get_characters(env, v.log, "search_plays:gender_filter",
                                    corpus_name, Get(play, "name", None)))
        ELSE v

\* server.py 427-454
ResultStep(env, st, play, v) ==
    LET Detailed(play_info) ==
            [st EXCEPT !.results = Append(@, [corpus |-> st.corpus_name, play |-> play]),
                       !.detailed_results =
                            IF ~IsError(play_info.value)
                            THEN Append(@, DetailOf(st.corpus_name, Get(play, "name", None),
                                                    play, play_info.value))
                            ELSE @,
                       !.log = play_info.log]
    IN  IF ~v.is_match THEN [st EXCEPT !.log = v.log]
        ELSE IF Len(st.detailed_results) < 5
        THEN Detailed(get_play(env, v.log, "search_plays:top_results",
                               st.corpus_name, Get(play, "name", None)))
        ELSE [st EXCEPT !.results = Append(@, [corpus |-> st.corpus_name, play |-> play]),
                        !.log = v.log]

\* server.py 331-454: one iteration of the loop over the plays of a corpus
SearchOnePlay(env, a, st, play) ==
    ResultStep(env, st, play,
        GenderStep(env, a, st.corpus_name, play,
            CharacterStep(env, a, st.corpus_name, play,
                Verdict(ListedPlayMatches(a, play), st.log))))

RECURSIVE SearchPlaysOf(_, _, _, _)
SearchPlaysOf(env, a, st, plays) ==
    IF plays = <<>> THEN st
    ELSE SearchPlaysOf(env, a, SearchOnePlay(env, a, st, Head(plays)), Tail(plays))

\* server.py 322-454: one iteration of the loop over the target corpora; the
\* loop variable is the function's own parameter corpus_name (line 323)
SearchOneCorpus(env, a, st, corpus) ==
    LET Listed(plays_result) ==
            IF IsError(plays_result.value)
            THEN [st EXCEPT !.corpus_name = Get(corpus, "name", None),
                            !.log = plays_result.log]
            ELSE SearchPlaysOf(env, a,
                               [st EXCEPT !.corpus_name = Get(corpus, "name", None),
                                          !.log = plays_result.log],
                               Get(plays_result.value, "plays", <<>>))
    IN  Listed(get_plays(env, st.log, "search_plays:plays", Get(corpus, "name", None)))

RECURSIVE SearchCorpora(_, _, _, _)
SearchCorpora(env, a, st, corpora) ==
    IF corpora = <<>> THEN st
    ELSE SearchCorpora(env, a, SearchOneCorpus(env, a, st, Head(corpora)), Tail(corpora))

\* server.py 456-470
SearchResult(a, st) ==
    [count |-> Len(st.results),
     results |-> st.results,
     top_results |-> st.detailed_results,
     filters_applied |->
        [query |-> a.query,
         corpus_name |-> st.corpus_name,
         character_name |-> a.character_name,
         country |-> a.country,
         language |-> a.language,
         author |-> a.author,
         year_range |-> IF TruthyInt(a.year_from) \/ TruthyInt(a.year_to)
                        THEN FormatInt(a.year_from) \o <<"-">> \o FormatInt(a.year_to)
                        ELSE None,
         gender_filter |-> a.gender_filter]]

search_plays(env, log, site, a) ==
    LET Searched(st) == Returns(SearchResult(a, st), st.log)
    IN  Contain(
            Unless(get_corpora(env, log, "search_plays:corpora"), LAMBDA corpora_result :
                   Searched(SearchCorpora(
                        env, a,
                        [corpus_name |-> a.corpus_name, results |-> <<>>,
                         detailed_results |-> <<>>, log |-> corpora_result.log],
                        TargetCorpora(Get(corpora_result.value, "corpora", <<>>),
                                      a.corpus_name)))))

(***************************************************************************)
(* compare_plays, server.py 474-513.                                       *)
(***************************************************************************)
\* play.get("authors", [{}])[0].get("name") if play.get("authors") else None
FirstAuthor(play) ==
    IF Get(play, "authors", <<>>) # <<>> THEN Get(play.authors[1], "name", None) ELSE None

\* server.py 483-486
ValidateBoth(a, log) ==
    Then(Validated(a.corpus_name1, "corpus_name1", log), LAMBDA v1 :
    Then(Validated(a.play_name1, "play_name1", log), LAMBDA v2 :
    Then(Validated(a.corpus_name2, "corpus_name2", log), LAMBDA v3 :
         Validated(a.play_name2, "play_name2", log))))

ComparedPlay(play, metrics) ==
    [title |-> Get(play, "title", None), author |-> FirstAuthor(play),
     year |-> YearField(play, "yearNormalized"), metrics |-> metrics]

compare_plays(env, log, site, a) ==
    Contain(
        Then(ValidateBoth(a, log), LAMBDA v :
        Then(api_request(env, log, site, Ep("play", a.corpus_name1, a.play_name1)),
             LAMBDA play1 :
        Then(api_request(env, play1.log, site, Ep("play", a.corpus_name2, a.play_name2)),
             LAMBDA play2 :
        Then(api_request(env, play2.log, site, Ep("metrics", a.corpus_name1, a.play_name1)),
             LAMBDA metrics1 :
        Then(api_request(env, metrics1.log, site,
                         Ep("metrics", a.corpus_name2, a.play_name2)),
             LAMBDA metrics2 :
             Returns([plays |-> <<ComparedPlay(play1.value, metrics1.value),
                                  ComparedPlay(play2.value, metrics2.value)>>],
                     metrics2.log)))))))

(***************************************************************************)
(* analyze_character_relations, server.py 515-617.                         *)
(***************************************************************************)
\* int(cell) of a string of decimal digits
DigitsValue(cell) ==
    LET value[i \in 0..Len(cell)] ==
            IF i = 0 THEN 0
            ELSE 10 * value[i - 1] + (CHOOSE d \in 0..9 : Decimal(d) = <<cell[i]>>)
    IN  value[Len(cell)]

IsDigits(cell) == cell # <<>> /\ \A i \in 1..Len(cell) : cell[i] \in Digits

\* try: weight = int(row[3])  except ValueError: weight = 0
WeightOf(cell) ==
    IF IsDigits(cell) THEN DigitsValue(cell)
    ELSE IF Len(cell) >= 2 /\ cell[1] = "-" /\ IsDigits(Tail(cell))
    THEN 0 - DigitsValue(Tail(cell))
    ELSE IF Len(cell) >= 2 /\ cell[1] = "+" /\ IsDigits(Tail(cell))
    THEN DigitsValue(Tail(cell))
    ELSE 0

\* a lookup that finds no character
NameUnresolved(characters, id) == None

\* server.py 547-554: the name of the last character whose id is `id`
NameOfId(characters, id) ==
    LET hits == {i \in 1..Len(characters) : Get(characters[i], "id", None) = id}
    IN  IF hits = {} THEN None
        ELSE Get(characters[CHOOSE i \in hits : \A j \in hits : j <= i], "name", None)

\* name or id
NameOr(name, id) == IF Truthy(name) THEN name ELSE id

\* rows[1:] when len(rows) > 1, and of those the rows with len(row) >= 4
DataRows(rows) ==
    IF Len(rows) > 1 THEN SelectSeq(Tail(rows), LAMBDA row : Len(row) >= 4) ELSE <<>>

\* server.py 538-562
Relation(row, characters) ==
    [source    |-> NameOr(NameOfId(characters, row[1]), row[1]),
     source_id |-> row[1],
     target    |-> NameOr(NameOfId(characters, row[3]), row[3]),
     target_id |-> row[3],
     weight    |-> WeightOf(row[4])]

RelationsOf(rows, characters) ==
    [i \in 1..Len(DataRows(rows)) |-> Relation(DataRows(rows)[i], characters)]

\* a sort that leaves the list as it is
Unsorted(list, key) == list

\* list.sort(key=..., reverse=True): stable, larger keys first
RECURSIVE InsertDescending(_, _, _)
InsertDescending(sorted, x, key) ==
    IF sorted = <<>> THEN <<x>>
    ELSE IF Head(sorted)[key] >= x[key]
    THEN <<Head(sorted)>> \o InsertDescending(Tail(sorted), x, key)
    ELSE <<x>> \o sorted

RECURSIVE SortDescending(_, _)
SortDescending(list, key) ==
    IF list = <<>> THEN <<>>
    ELSE InsertDescending(SortDescending(SubSeq(list, 1, Len(list) - 1), key),
                          list[Len(list)], key)

\* server.py 577-596
FormalRelation(row, characters) ==
    [source |-> NameOr(NameOfId(characters, row[1]), row[1]),
     target |-> NameOr(NameOfId(characters, row[3]), row[3]),
     type   |-> row[4]]

FormalRelationsOf(rows, characters) ==
    [i \in 1..Len(DataRows(rows)) |-> FormalRelation(DataRows(rows)[i], characters)]

\* the explicit relations fetched as the other texts are, failures raised
FetchFormalRelationsStrict(env, log, a, characters) ==
    Then(get_text(env, log, "analyze_character_relations:relations_csv",
                  Ep("relations/csv", a.corpus_name, a.play_name)),
         LAMBDA text : Returns(FormalRelationsOf(text.value, characters), text.log))

\* server.py 567-598: the best-effort fetch of the explicit relations; the
\* value is formal_relations
FetchFormalRelations(env, log, a, characters) ==
    LET Read(text) == Returns(FormalRelationsOf(text.value, characters), text.log)
        Fetched(got) ==
            IF got.raised THEN Returns(<<>>, got.log)
            ELSE IF got.value.out \in Non2xx THEN Returns(<<>>, got.log)
            ELSE Read(response_text(env, got))
    IN  Fetched(requests_get(env, log, "analyze_character_relations:relations_csv",
                             Ep("relations/csv", a.corpus_name, a.play_name)))

\* a slice that keeps the whole list
Unsliced(list) == list

\* relations[:10]
FirstTen(list) == SubSeq(list, 1, IF Len(list) < 10 THEN Len(list) ELSE 10)

\* relations[-10:] if len(relations) >= 10 else relations
LastTen(list) == IF Len(list) >= 10 THEN SubSeq(list, Len(list) - 9, Len(list)) ELSE list

\* server.py 603-615
RelationsReport(play, characters, relations, formal_relations, metrics) ==
    [play |-> [title  |-> Get(play, "title", None),
               author |-> FirstAuthor(play),
               year   |-> YearField(play, "yearNormalized")],
     totalCharacters    |-> Len(characters),
     totalRelations     |-> Len(relations),
     strongestRelations |-> FirstTen(relations),
     weakestRelations   |-> LastTen(relations),
     formalRelations    |-> formal_relations,
     metrics            |-> metrics]

analyze_character_relations(env, log, site, a) ==
    Contain(
        Then(ValidatePair(a.corpus_name, a.play_name, log), LAMBDA v :
        Then(api_request(env, log, site, Ep("play", a.corpus_name, a.play_name)),
             LAMBDA play :
        Then(api_request(env, play.log, site, Ep("characters", a.corpus_name, a.play_name)),
             LAMBDA characters :
        Then(get_text(env, characters.log, site,
                      Ep("networkdata/csv", a.corpus_name, a.play_name)),
             LAMBDA csv_data :
        Then(FetchFormalRelations(env, csv_data.log, a, characters.value),
             LAMBDA formal_relations :
        Then(api_request(env, formal_relations.log, site,
                         Ep("metrics", a.corpus_name, a.play_name)),
             LAMBDA metrics :
             Returns(RelationsReport(
                        play.value, characters.value,
                        SortDescending(RelationsOf(csv_data.value, characters.value),
                                       "weight"),
                        formal_relations.value, metrics.value),
                     metrics.log))))))))

(***************************************************************************)
(* analyze_play_structure, server.py 619-697.                              *)
(***************************************************************************)
\* server.py 629-642
SegmentsOfType(segments, type) ==
    SelectSeq(segments, LAMBDA segment : Get(segment, "type", "None") = type)

ActOf(segment) ==
    [number |-> YearField(segment, "number"), title |-> Get(segment, "title", None)]

SceneOf(segment) ==
    [number |-> YearField(segment, "number"), title |-> Get(segment, "title", None),
     speakers |-> Get(segment, "speakers", <<>>)]

\* a tally that puts every gender other than MALE and FEMALE under UNKNOWN
GenderCountsBucketed(characters) ==
    [g \in {"MALE", "FEMALE", "UNKNOWN"} |->
        IF g = "UNKNOWN"
        THEN Len(characters) - GenderCount(characters, "MALE")
                             - GenderCount(characters, "FEMALE")
        ELSE GenderCount(characters, g)]

\* server.py 647-652
GenderCounts(characters) ==
    [g \in {"MALE", "FEMALE", "UNKNOWN"} |-> GenderCount(characters, g)]

\* sum(char.get("numOfWords", 0) for char in characters)
TotalWords(characters) ==
    LET sum[i \in 0..Len(characters)] ==
            IF i = 0 THEN 0 ELSE sum[i - 1] + Get(characters[i], "numOfWords", 0)
    IN  sum[Len(characters)]

\* round((char_words / total_words) * 100, 2), in hundredths of a percent:
\* the exact quotient rounded to the nearest hundredth, ties to even
PercentHundredths(char_words, total_words) ==
    LET scaled == char_words * 10000
        q      == scaled \div total_words
        r2     == 2 * (scaled % total_words)
    IN  IF r2 < total_words THEN q
        ELSE IF r2 > total_words THEN q + 1
        ELSE IF q % 2 = 0 THEN q ELSE q + 1

\* server.py 659-671
SpeakingDistribution(characters) ==
    IF TotalWords(characters) > 0
    THEN SortDescending(
            [i \in 1..Len(characters) |->
                [character  |-> Get(characters[i], "name", None),
                 words      |-> Get(characters[i], "numOfWords", 0),
                 percentage |-> PercentHundredths(Get(characters[i], "numOfWords", 0),
                                                  TotalWords(characters))]],
            "words")
    ELSE <<>>

\* server.py 629-642 and 674-693
Structure(play, metrics, characters) ==
    [title         |-> Get(play, "title", None),
     authors       |-> [i \in 1..Len(Get(play, "authors", <<>>)) |->
                            Get(play.authors[i], "name", None)],
     year          |-> YearField(play, "yearNormalized"),
     yearWritten   |-> YearField(play, "yearWritten"),
     yearPrinted   |-> YearField(play, "yearPrinted"),
     yearPremiered |-> YearField(play, "yearPremiered"),
     acts          |-> [i \in 1..Len(SegmentsOfType(Get(play, "segments", <<>>), "act")) |->
                            ActOf(SegmentsOfType(Get(play, "segments", <<>>), "act")[i])],
     scenes        |-> [i \in 1..Len(SegmentsOfType(Get(play, "segments", <<>>), "scene")) |->
                            SceneOf(SegmentsOfType(Get(play, "segments", <<>>), "scene")[i])],
     numOfActs     |-> Len(SegmentsOfType(Get(play, "segments", <<>>), "act")),
     numOfScenes   |-> Len(SegmentsOfType(Get(play, "segments", <<>>), "scene")),
     segments      |-> YearField(metrics, "segments"),
     dialogues     |-> YearField(metrics, "dialogues"),
     wordCount     |-> TotalWords(characters),
     characters    |-> [total |-> Len(characters), byGender |-> GenderCounts(characters)],
     speakingDistribution |-> FirstTen(SpeakingDistribution(characters))]

analyze_play_structure(env, log, site, a) ==
    Contain(
        Then(ValidatePair(a.corpus_name, a.play_name, log), LAMBDA v :
        Then(api_request(env, log, site, Ep("play", a.corpus_name, a.play_name)),
             LAMBDA play :
        Then(api_request(env, play.log, site, Ep("metrics", a.corpus_name, a.play_name)),
             LAMBDA metrics :
        Then(api_request(env, metrics.log, site,
                         Ep("characters", a.corpus_name, a.play_name)),
             LAMBDA characters :
        Then(api_request(env, characters.log, site,
                         Ep("spoken-text-by-character", a.corpus_name, a.play_name)),
             LAMBDA spoken_text_by_char :
             Returns(Structure(play.value, metrics.value, characters.value),
                     spoken_text_by_char.log)))))))

(***************************************************************************)
(* find_character_across_plays, server.py 699-731.                         *)
(***************************************************************************)
\* server.py 716-725
MatchesIn(character_name, corpus_name, play, characters) ==
    LET hits == SelectSeq(characters,
                    LAMBDA character :
                        Contains(Lower(NameOr(Get(character, "name", None), <<>>)),
                                 Lower(character_name)))
    IN  [i \in 1..Len(hits) |->
            [corpus          |-> corpus_name,
             play            |-> Get(play, "title", None),
             character       |-> Get(hits[i], "name", None),
             gender          |-> Get(hits[i], "gender", "None"),
             numOfSpeechActs |-> YearField(hits[i], "numOfSpeechActs"),
             numOfWords      |-> YearField(hits[i], "numOfWords")]]

\* an iteration that lets the failure of the fetch end the search
FindInPlayStrict(env, character_name, corpus_name, play, acc) ==
    IF acc.raised THEN acc
    ELSE Then(api_request(env, acc.log, "find_character_across_plays:characters",
                          Ep("characters", corpus_name, Get(play, "name", None))),
              LAMBDA characters :
              Returns(acc.value \o MatchesIn(character_name, corpus_name, play,
                                             characters.value),
                      characters.log))

\* server.py 710-727: one iteration of the loop over the plays of a corpus;
\* acc is the list of matches with the requests issued so far
FindInPlay(env, character_name, corpus_name, play, acc) ==
    LET Fetched(characters) ==
            IF characters.raised THEN Returns(acc.value, characters.log)
            ELSE Returns(acc.value \o MatchesIn(character_name, corpus_name, play,
                                                characters.value),
                         characters.log)
    IN  Fetched(api_request(env, acc.log, "find_character_across_plays:characters",
                            Ep("characters", corpus_name, Get(play, "name", None))))

RECURSIVE FindInPlays(_, _, _, _, _)
FindInPlays(env, character_name, corpus_name, plays, acc) ==
    IF plays = <<>> THEN acc
    ELSE FindInPlays(env, character_name, corpus_name, Tail(plays),
                     FindInPlay(env, character_name, corpus_name, Head(plays), acc))

\* server.py 706-727: one iteration of the loop over the corpora
FindInCorpus(env, site, character_name, corpus, acc) ==
    IF "name" \notin DOMAIN corpus
    THEN Raises(Exc("KeyError", "name", "corpus"), acc.log)
    ELSE Then(api_request(env, acc.log, site, Ep("corpus", corpus.name, <<>>)),
              LAMBDA corpus_data :
              FindInPlays(env, character_name, corpus.name,
                          Get(corpus_data.value, "plays", <<>>),
                          Returns(acc.value, corpus_data.log)))

RECURSIVE FindInCorpora(_, _, _, _, _)
FindInCorpora(env, site, character_name, corpora, acc) ==
    IF corpora = <<>> THEN acc
    ELSE Then(FindInCorpus(env, site, character_name, Head(corpora), acc),
              LAMBDA found :
              FindInCorpora(env, site, character_name, Tail(corpora), found))

find_character_across_plays(env, log, site, a) ==
    Contain(
        Then(api_request(env, log, site, Ep("corpora", <<>>, <<>>)), LAMBDA all_corpora :
             Wrapped("matches",
                     FindInCorpora(env, site, a.character_name, all_corpora.value,
                                   Returns(<<>>, all_corpora.log)))))

(***************************************************************************)
(* analyze_full_text, server.py 733-834.                                   *)
(*                                                                         *)
(* A TEI document is [wellformed |-> FALSE] or a record [wellformed,       *)
(* title, authors, acts, scenes, speeches, stage_directions]: the text of  *)
(* the title element (None when there is none), the texts of the author    *)
(* elements, the numbers of act and scene divisions, and the texts of the  *)
(* sp and stage elements in document order.                                *)
(***************************************************************************)
Whitespace == {" ", "\n", "\t", "\r"}

\* str.strip()
Strip(s) ==
    LET inked == {i \in 1..Len(s) : s[i] \notin Whitespace}
    IN  IF inked = {} THEN <<>>
        ELSE SubSeq(s, CHOOSE i \in inked : \A j \in inked : i <= j,
                       CHOOSE i \in inked : \A j \in inked : j <= i)

\* str.count(sub): the number of non-overlapping occurrences, left to right
Count(text, sub) ==
    LET from[i \in 1..(Len(text) + 1)] ==
            IF i + Len(sub) - 1 > Len(text) THEN 0
            ELSE IF SubSeq(text, i, i + Len(sub) - 1) = sub THEN 1 + from[i + Len(sub)]
            ELSE from[i + 1]
    IN  from[1]

\* a parse that keeps a count of one act whatever the body
ParseTeiUnzeroed(tei_text) ==
    [title  |-> Unknown, authors |-> <<Unknown>>,
     act_count |-> 1, scene_count |-> 0, speech_count |-> 0, stage_direction_count |-> 0,
     speeches |-> <<>>, stage_directions |-> <<>>]

\* server.py 753-785: what is kept of the parsed document; ET.fromstring
\* raises ParseError on a body that is not well-formed
ParseTei(tei_text) ==
    IF tei_text.wellformed
    THEN [title  |-> IF Truthy(tei_text.title) THEN Strip(tei_text.title) ELSE Unknown,
          authors |-> IF SelectSeq(tei_text.authors, LAMBDA t : Truthy(t)) # <<>>
                      THEN [i \in 1..Len(SelectSeq(tei_text.authors, LAMBDA t : Truthy(t))) |->
                                Strip(SelectSeq(tei_text.authors, LAMBDA t : Truthy(t))[i])]
                      ELSE <<Unknown>>,
          act_count |-> tei_text.acts,
          scene_count |-> tei_text.scenes,
          speech_count |-> Len(tei_text.speeches),
          stage_direction_count |-> Len(tei_text.stage_directions),
          speeches |-> tei_text.speeches,
          stage_directions |-> tei_text.stage_directions]
    ELSE [title  |-> Unknown,
          authors |-> <<Unknown>>,
          act_count |-> 0, scene_count |-> 0, speech_count |-> 0,
          stage_direction_count |-> 0,
          speeches |-> <<>>, stage_directions |-> <<>>]

\* server.py 809-822
TeiAnalysis(doc) ==
    [title   |-> doc.title,
     authors |-> doc.authors,
     structure |-> [acts |-> doc.act_count, scenes |-> doc.scene_count,
                    speeches |-> doc.speech_count,
                    stage_directions |-> doc.stage_direction_count],
     text_sample |->
        [first_speech |-> IF doc.speeches # <<>> THEN Strip(doc.speeches[1]) ELSE <<>>,
         first_stage_direction |->
            IF doc.stage_directions # <<>> THEN Strip(doc.stage_directions[1]) ELSE <<>>]]

\* x or 1 on an integer
OrOne(x) == IF x # 0 THEN x ELSE 1

\* server.py 825-830; the ratio is the quotient num/den
TextAnalysis(text_content, characters) ==
    [text_length |-> Len(text_content),
     character_count |-> Len(Get(characters, "characters", <<>>)),
     dialogue_to_direction_ratio |->
        [num |-> Count(text_content, <<"\n", "\n">> \o DialogueHeader),
         den |-> OrOne(Count(text_content, <<"\n", "\n">> \o StageHeader))]]

\* a fetch that gives up when the plain text fails after the TEI was fetched
FetchTextChecked(env, log, a) ==
    LET Fallback(tei_result) ==
            Unless(get_full_text(env, tei_result.log, "analyze_full_text:fallback",
                                 a.corpus_name, a.play_name),
                   LAMBDA full_text :
                   Returns([has_tei |-> FALSE, doc |-> ParseTei([wellformed |-> FALSE]),
                            text_content |-> full_text.value.text],
                           full_text.log))
        Plain(tei_result) ==
            Unless(get_full_text(env, tei_result.log, "analyze_full_text:text",
                                 a.corpus_name, a.play_name),
                   LAMBDA full_text :
                   Returns([has_tei |-> TRUE, doc |-> ParseTei(tei_result.value.tei_text),
                            text_content |-> full_text.value.text],
                           full_text.log))
        Parsed(tei_result) ==
            IF IsError(tei_result.value) THEN Fallback(tei_result) ELSE Plain(tei_result)
    IN  Parsed(get_tei_text(env, log, "analyze_full_text:tei", a.corpus_name, a.play_name))

\* server.py 739-789: the value is [has_tei, doc, text_content], or the
\* mapping {"error": ...} line 745 returns
FetchText(env, log, a) ==
    LET Fallback(tei_result) ==
            Unless(get_full_text(env, tei_result.log, "analyze_full_text:fallback",
                                 a.corpus_name, a.play_name),
                   LAMBDA full_text :
                   Returns([has_tei |-> FALSE, doc |-> ParseTei([wellformed |-> FALSE]),
                            text_content |-> full_text.value.text],
                           full_text.log))
        Plain(tei_result, full_text) ==
            Returns([has_tei |-> TRUE, doc |-> ParseTei(tei_result.value.tei_text),
                     text_content |-> Get(full_text.value, "text", <<>>)],
                    full_text.log)
        Parsed(tei_result) ==
            IF IsError(tei_result.value) THEN Fallback(tei_result)
            ELSE Plain(tei_result,
                       get_full_text(env, tei_result.log, "analyze_full_text:text",
                                     a.corpus_name, a.play_name))
    IN  Parsed(get_tei_text(env, log, "analyze_full_text:tei", a.corpus_name, a.play_name))

\* a result that carries the TEI block on every path
FullTextResultWithTei(fetched, play_info, characters) ==
    [k \in {"play", "characters", "text", "analysis", "tei_analysis"} |->
        CASE k = "play" -> Get(play_info, "play", <<>>)
          [] k = "characters" -> Get(characters, "characters", <<>>)
          [] k = "text" -> fetched.text_content
          [] k = "analysis" -> TextAnalysis(fetched.text_content, characters)
          [] k = "tei_analysis" -> TeiAnalysis(fetched.doc)]

\* server.py 801-832
FullTextResult(fetched, play_info, characters) ==
    [k \in {"play", "characters", "text", "analysis"}
           \cup (IF fetched.has_tei THEN {"tei_analysis"} ELSE {}) |->
        CASE k = "play" -> Get(play_info, "play", <<>>)
          [] k = "characters" -> Get(characters, "characters", <<>>)
          [] k = "text" -> fetched.text_content
          [] k = "analysis" -> TextAnalysis(fetched.text_content, characters)
          [] k = "tei_analysis" -> TeiAnalysis(fetched.doc)]

\* the tool without the checks of lines 793-794 and 798-799
analyze_full_text_unchecked(env, log, site, a) ==
    Contain(
        Then(ValidatePair(a.corpus_name, a.play_name, log), LAMBDA v :
        Unless(FetchText(env, log, a), LAMBDA fetched :
        Then(get_play(env, fetched.log, site, a.corpus_name, a.play_name),
             LAMBDA play_info :
        Then(get_characters(env, play_info.log, site, a.corpus_name, a.play_name),
             LAMBDA characters :
             Returns(FullTextResult(fetched.value, play_info.value, characters.value),
                     characters.log))))))

analyze_full_text(env, log, site, a) ==
    Contain(
        Then(ValidatePair(a.corpus_name, a.play_name, log), LAMBDA v :
        Unless(FetchText(env, log, a), LAMBDA fetched :
        Unless(get_play(env, fetched.log, site, a.corpus_name, a.play_name),
               LAMBDA play_info :
        Unless(get_characters(env, play_info.log, site, a.corpus_name, a.play_name),
               LAMBDA characters :
               Returns(FullTextResult(fetched.value, play_info.value, characters.value),
                       characters.log))))))

(***************************************************************************)
(* Upstream contents the handlers are explored against.                    *)
(***************************************************************************)
Character(id, name, gender, words) ==
    [id |-> id, name |-> name, gender |-> gender, numOfWords |-> words,
     numOfSpeechActs |-> words]

\* a play with the given listed object and cast, and fixed other content
PlayOf(summary, cast) ==
    [summary  |-> summary,
     cast     |-> cast,
     segments |-> <<[type |-> "act", number |-> 1, title |-> <<"I">>],
                    [type |-> "scene", number |-> 1, title |-> <<"i">>,
                     speakers |-> <<<<"h">>>>]>>,
     metrics  |-> [segments |-> 2, dialogues |-> 1],
     spoken   |-> <<"h", "i">>,
     stage    |-> <<"e", "x">>,
     byChar   |-> <<[id |-> <<"h">>, text |-> <<<<"h", "i">>>>]>>,
     network  |-> <<<<<<"S">>, <<"T">>, <<"G">>, <<"W">>>>,
                    <<<<"h">>, <<"u">>, <<"o">>, <<"2">>>>>>,
     relations |-> <<>>,
     relationsCsv |-> <<<<<<"S">>, <<"T">>, <<"G">>, <<"W">>>>,
                        <<<<"h">>, <<"d">>, <<"o">>, <<"p">>>>>>,
     tei      |-> [wellformed |-> TRUE, title |-> <<"T">>, authors |-> <<<<"s">>>>,
                   acts |-> 1, scenes |-> 1,
                   speeches |-> <<<<"h", "i">>>>, stage_directions |-> <<<<"e", "x">>>>]]

Hamlet == Character(<<"h">>, <<"H">>, "MALE", 2)

Ophelia == Character(<<"o">>, <<"O">>, "FEMALE", 1)

ListedPlay(name) ==
    [name |-> name, title |-> <<"T">>, authors |-> <<[name |-> <<"s">>]>>,
     yearNormalized |-> 2, originalLanguage |-> <<"e">>]

NoUpstream == [info |-> [name |-> <<"D">>], corpora |-> <<>>, wikidata |-> <<>>]

UpstreamOf(corpora) ==
    [info |-> [name |-> <<"D">>], corpora |-> corpora,
     wikidata |-> [w \in {<<"Q", "4">>} |-> <<[id |-> <<"p">>]>>]]

\* one corpus "a" holding one play "p"
TinyWorld ==
    UpstreamOf(<<[name |-> <<"a">>,
                  plays |-> <<PlayOf(ListedPlay(<<"p">>), <<Hamlet, Ophelia>>)>>]>>)

(***************************************************************************)
(* The calls the handlers are explored with.                               *)
(***************************************************************************)
Admin == <<".", ".", "/", ".", ".", "/", "a", "d", "m", "i", "n">>

CorpusSamples == {<<"a">>, <<"b">>, <<>>, <<".", ".", "/">>, <<"a", "\n">>}

PlaySamples == {<<"p">>, <<"q">>, <<>>, <<"p", "/">>}

WikidataSamples == {<<"Q", "4">>, <<"Q", "7">>, <<"4">>, <<>>, Admin}

Call(handler, args) == [handler |-> handler, args |-> args]

NoArgsHandlers == {"get_api_info", "get_corpora"}

CorpusHandlers == {"get_corpus", "get_corpus_metadata", "get_plays"}

PlayHandlers ==
    {"get_play", "get_play_metrics", "get_characters", "get_spoken_text",
     "get_spoken_text_by_character", "get_stage_directions", "get_network_data",
     "get_relations", "get_full_text", "get_tei_text",
     "analyze_character_relations", "analyze_play_structure", "analyze_full_text"}

SearchArgs(query, corpus_name, character_name, year_from, year_to, gender_filter) ==
    [query |-> query, corpus_name |-> corpus_name, character_name |-> character_name,
     country |-> None, language |-> None, author |-> None,
     year_from |-> year_from, year_to |-> year_to, gender_filter |-> gender_filter]

AllCalls ==
    {Call(h, <<>>) : h \in NoArgsHandlers}
    \cup {Call(h, [corpus_name |-> c]) : h \in CorpusHandlers, c \in CorpusSamples}
    \cup {Call(h, [corpus_name |-> c, play_name |-> p]) :
            h \in PlayHandlers, c \in CorpusSamples, p \in PlaySamples}
    \cup {Call("get_plays_with_character", [wikidata_id |-> w]) : w \in WikidataSamples}
    \cup {Call("compare_plays",
               [corpus_name1 |-> c1, play_name1 |-> p1, corpus_name2 |-> c2, play_name2 |-> p2]) :
            c1 \in CorpusSamples, p1 \in PlaySamples,
            c2 \in {<<"a">>, <<".", ".", "/">>}, p2 \in {<<"p">>, <<>>}}
    \cup {Call("search_plays", SearchArgs(None, None, cn, <<>>, <<>>, gf)) :
            cn \in {None, <<"h">>}, gf \in {<<>>, <<"balanced">>}}
    \cup {Call("find_character_across_plays", [character_name |-> cn]) :
            cn \in {<<"h">>, <<"x">>}}

(***************************************************************************)
(* The state machine.                                                      *)
(***************************************************************************)
NoCall == Call("none", <<>>)

NoResponse == [status |-> "none", value |-> <<>>]

Init ==
    /\ upstream = NoUpstream
    /\ request = NoCall
    /\ requests = <<>>
    /\ response = NoResponse
    /\ pc = "idle"
    /\ served = <<>>

\* the framework dispatches a call (the handlers registered by @mcp.resource
\* and @mcp.tool); the upstream is in some state when it does
Receive(calls, worlds) ==
    /\ pc = "idle"
    /\ \E call \in calls, world \in worlds :
        /\ request' = call
        /\ upstream' = world
    /\ requests' = <<>>
    /\ response' = NoResponse
    /\ pc' = "pending"
    /\ UNCHANGED served

\* the handler runs to its end: c is the computation it performs
Finish(c) ==
    /\ pc' = "done"
    /\ requests' = c.log
    /\ response' = [status |-> IF c.raised THEN "raised" ELSE "returned", value |-> c.value]
    /\ UNCHANGED <<upstream, request, served>>

\* the framework hands the result to the caller; nothing of the call is kept
\* (stateless_http=True, server.py 41-45)
Respond ==
    /\ pc = "done"
    /\ pc' = "idle"
    /\ upstream' = NoUpstream
    /\ request' = NoCall
    /\ requests' = <<>>
    /\ response' = NoResponse
    /\ UNCHANGED served

Pending(handler) == pc = "pending" /\ request.handler = handler

ValidateNameCall ==
    /\ Pending("validate_name")
    /\ Finish(validate_name(request.args.name, "name"))

ValidateWikidataIdCall ==
    /\ Pending("validate_wikidata_id")
    /\ Finish(validate_wikidata_id(request.args.wikidata_id))

GetApiInfoCall(scripts) ==
    /\ Pending("get_api_info")
    /\ \E script \in scripts :
        Finish(get_api_info(Env(upstream, script), <<>>, "get_api_info"))

GetCorporaCall(scripts) ==
    /\ Pending("get_corpora")
    /\ \E script \in scripts :
        Finish(get_corpora(Env(upstream, script), <<>>, "get_corpora"))

GetCorpusCall(scripts) ==
    /\ Pending("get_corpus")
    /\ \E script \in scripts :
        Finish(get_corpus(Env(upstream, script), <<>>, "get_corpus",
                          request.args.corpus_name))

GetCorpusMetadataCall(scripts) ==
    /\ Pending("get_corpus_metadata")
    /\ \E script \in scripts :
        Finish(get_corpus_metadata(Env(upstream, script), <<>>, "get_corpus_metadata",
                                   request.args.corpus_name))

GetPlaysCall(scripts) ==
    /\ Pending("get_plays")
    /\ \E script \in scripts :
        Finish(get_plays(Env(upstream, script), <<>>, "get_plays",
                         request.args.corpus_name))

GetPlayCall(scripts) ==
    /\ Pending("get_play")
    /\ \E script \in scripts :
        Finish(get_play(Env(upstream, script), <<>>, "get_play",
                        request.args.corpus_name, request.args.play_name))

GetPlayMetricsCall(scripts) ==
    /\ Pending("get_play_metrics")
    /\ \E script \in scripts :
        Finish(get_play_metrics(Env(upstream, script), <<>>, "get_play_metrics",
                                request.args.corpus_name, request.args.play_name))

GetCharactersCall(scripts) ==
    /\ Pending("get_characters")
    /\ \E script \in scripts :
        Finish(get_characters(Env(upstream, script), <<>>, "get_characters",
                              request.args.corpus_name, request.args.play_name))

GetSpokenTextCall(scripts) ==
    /\ Pending("get_spoken_text")
    /\ \E script \in scripts :
        Finish(get_spoken_text(Env(upstream, script), <<>>, "get_spoken_text",
                               request.args.corpus_name, request.args.play_name))

GetSpokenTextByCharacterCall(scripts) ==
    /\ Pending("get_spoken_text_by_character")
    /\ \E script \in scripts :
        Finish(get_spoken_text_by_character(Env(upstream, script), <<>>,
                                            "get_spoken_text_by_character",
                                            request.args.corpus_name, request.args.play_name))

GetStageDirectionsCall(scripts) ==
    /\ Pending("get_stage_directions")
    /\ \E script \in scripts :
        Finish(get_stage_directions(Env(upstream, script), <<>>, "get_stage_directions",
                                    request.args.corpus_name, request.args.play_name))

GetNetworkDataCall(scripts) ==
    /\ Pending("get_network_data")
    /\ \E script \in scripts :
        Finish(get_network_data(Env(upstream, script), <<>>, "get_network_data",
                                request.args.corpus_name, request.args.play_name))

GetRelationsCall(scripts) ==
    /\ Pending("get_relations")
    /\ \E script \in scripts :
        Finish(get_relations(Env(upstream, script), <<>>, "get_relations",
                             request.args.corpus_name, request.args.play_name))

GetFullTextCall(scripts) ==
    /\ Pending("get_full_text")
    /\ \E script \in scripts :
        Finish(get_full_text(Env(upstream, script), <<>>, "get_full_text",
                             request.args.corpus_name, request.args.play_name))

GetTeiTextCall(scripts) ==
    /\ Pending("get_tei_text")
    /\ \E script \in scripts :
        Finish(get_tei_text(Env(upstream, script), <<>>, "get_tei_text",
                            request.args.corpus_name, request.args.play_name))

GetPlaysWithCharacterCall(scripts) ==
    /\ Pending("get_plays_with_character")
    /\ \E script \in scripts :
        Finish(get_plays_with_character(Env(upstream, script), <<>>,
                                        "get_plays_with_character",
                                        request.args.wikidata_id))

SearchPlaysCall(scripts) ==
    /\ Pending("search_plays")
    /\ \E script \in scripts :
        Finish(search_plays(Env(upstream, script), <<>>, "search_plays", request.args))

ComparePlaysCall(scripts) ==
    /\ Pending("compare_plays")
    /\ \E script \in scripts :
        Finish(compare_plays(Env(upstream, script), <<>>, "compare_plays", request.args))

AnalyzeCharacterRelationsCall(scripts) ==
    /\ Pending("analyze_character_relations")
    /\ \E script \in scripts :
        Finish(analyze_character_relations(Env(upstream, script), <<>>,
                                           "analyze_character_relations", request.args))

AnalyzePlayStructureCall(scripts) ==
    /\ Pending("analyze_play_structure")
    /\ \E script \in scripts :
        Finish(analyze_play_structure(Env(upstream, script), <<>>,
                                      "analyze_play_structure", request.args))

FindCharacterAcrossPlaysCall(scripts) ==
    /\ Pending("find_character_across_plays")
    /\ \E script \in scripts :
        Finish(find_character_across_plays(Env(upstream, script), <<>>,
                                           "find_character_across_plays", request.args))

AnalyzeFullTextCall(scripts) ==
    /\ Pending("analyze_full_text")
    /\ \E script \in scripts :
        Finish(analyze_full_text(Env(upstream, script), <<>>, "analyze_full_text",
                                 request.args))

\* a handler that issues one request is explored with every outcome of it, one
\* that issues two with every pair, the tools with every script of MaxScript
\* outcomes
OneRequest == Scripts(1, Outcomes)

TwoRequests == Scripts(2, Outcomes)

ToolScripts == Scripts(MaxScript, Outcomes)

Next ==
    \/ Receive(AllCalls, {TinyWorld})
    \/ Respond
    \/ GetApiInfoCall(OneRequest)
    \/ GetCorporaCall(OneRequest)
    \/ GetCorpusCall(OneRequest)
    \/ GetCorpusMetadataCall(OneRequest)
    \/ GetPlaysCall(OneRequest)
    \/ GetPlayCall(OneRequest)
    \/ GetPlayMetricsCall(OneRequest)
    \/ GetCharactersCall(OneRequest)
    \/ GetSpokenTextCall(OneRequest)
    \/ GetSpokenTextByCharacterCall(OneRequest)
    \/ GetStageDirectionsCall(OneRequest)
    \/ GetNetworkDataCall(OneRequest)
    \/ GetRelationsCall(OneRequest)
    \/ GetFullTextCall(TwoRequests)
    \/ GetTeiTextCall(OneRequest)
    \/ GetPlaysWithCharacterCall(OneRequest)
    \/ SearchPlaysCall(ToolScripts)
    \/ ComparePlaysCall(ToolScripts)
    \/ AnalyzeCharacterRelationsCall(ToolScripts)
    \/ AnalyzePlayStructureCall(ToolScripts)
    \/ FindCharacterAcrossPlaysCall(ToolScripts)
    \/ AnalyzeFullTextCall(ToolScripts)

Spec == Init /\ [][Next]_vars

\* the validators applied to every string of at most MaxLen characters
ValidatorCalls ==
    {Call("validate_name", [name |-> s]) : s \in Strings(MaxLen)}
    \cup {Call("validate_wikidata_id", [wikidata_id |-> s]) : s \in Strings(MaxLen)}

NextValidate ==
    \/ Receive(ValidatorCalls, {NoUpstream})
    \/ Respond
    \/ ValidateNameCall
    \/ ValidateWikidataIdCall

SpecValidate == Init /\ [][NextValidate]_vars

(***************************************************************************)
(* search_plays explored against upstreams that vary one thing at a time:  *)
(* the corpora listed, the year fields of a play, the outcome of each      *)
(* request, the genders of a cast.                                         *)
(***************************************************************************)
\* most corpora listed by the upstream
MaxCorpora == 2
\* largest year of a play and of a bound of the year filter
MaxYear == 3
\* largest cast of a play
MaxCast == 5

CorpusOf(name, plays) == [name |-> name, plays |-> plays]

Distinct(s) == \A i, j \in DOMAIN s : i # j => s[i] # s[j]

SearchCall(a) == Call("search_plays", a)

\* every request of a search succeeds or is answered 500, the first
\* MaxScript freely
SearchScripts == Scripts(MaxScript, {"ok", "http500"})

CorpusNames == {<<"a", "b">>, <<"B">>, <<"c">>}

\* up to MaxCorpora corpora of one play each
CorpusWorlds ==
    {UpstreamOf([i \in DOMAIN names |->
                    CorpusOf(names[i], <<PlayOf(ListedPlay(<<"p">>), <<Hamlet>>)>>)]) :
        names \in {s \in UNION {[1..k -> CorpusNames] : k \in 0..MaxCorpora} : Distinct(s)}}

CorpusCalls ==
    {SearchCall(SearchArgs(None, cn, None, <<>>, <<>>, <<>>)) :
        cn \in {None, <<>>, <<"b">>, <<"B">>, <<"a", "b">>, <<"x">>}}

NextCorpus ==
    \/ Receive(CorpusCalls, CorpusWorlds)
    \/ Respond
    \/ SearchPlaysCall(SearchScripts)

SpecCorpus == Init /\ [][NextCorpus]_vars

YearKeys == <<"yearNormalized", "yearWritten", "yearPrinted">>

Undated(name) ==
    [name |-> name, title |-> <<"T">>, authors |-> <<[name |-> <<"s">>]>>,
     originalLanguage |-> <<"e">>]

\* the listed play whose i-th year field is y[i], absent when y[i] = 0
DatedPlay(name, y) ==
    [k \in DOMAIN Undated(name) \cup {YearKeys[i] : i \in {j \in DOMAIN y : y[j] # 0}} |->
        IF k \in DOMAIN Undated(name) THEN Undated(name)[k]
        ELSE y[CHOOSE i \in DOMAIN y : YearKeys[i] = k]]

\* one corpus of one play, with every choice of its year fields
YearWorlds ==
    {UpstreamOf(<<CorpusOf(<<"a">>, <<PlayOf(DatedPlay(<<"p">>, y), <<Hamlet>>)>>)>>) :
        y \in [DOMAIN YearKeys -> 0..MaxYear]}

YearBounds == {<<>>} \cup {<<n>> : n \in 0..MaxYear}

YearCalls ==
    {SearchCall(SearchArgs(None, None, None, year_from, year_to, <<>>)) :
        year_from \in YearBounds, year_to \in YearBounds}

NextYear ==
    \/ Receive(YearCalls, YearWorlds)
    \/ Respond
    \/ SearchPlaysCall(SearchScripts)

SpecYear == Init /\ [][NextYear]_vars

Casts == {<<Hamlet>>, <<Ophelia>>, <<Hamlet, Ophelia>>}

\* corpus "a" of the plays "p" and "q", corpus "b" of the play "r"
FailureWorlds ==
    {UpstreamOf(<<CorpusOf(<<"a">>, <<PlayOf(ListedPlay(<<"p">>), cast1),
                                      PlayOf(ListedPlay(<<"q">>), cast2)>>),
                  CorpusOf(<<"b">>, <<PlayOf(ListedPlay(<<"r">>), cast1)>>)>>) :
        cast1 \in Casts, cast2 \in Casts}

FailureCalls ==
    {SearchCall(SearchArgs(None, None, character_name, <<>>, <<>>, gender_filter)) :
        character_name \in {None, <<"h">>},
        gender_filter \in {<<>>, <<"balanced">>, <<"male_dominated">>}}

NextFailure ==
    \/ Receive(FailureCalls, FailureWorlds)
    \/ Respond
    \/ SearchPlaysCall(ToolScripts)

SpecFailure == Init /\ [][NextFailure]_vars

Genders == {"MALE", "FEMALE", "UNKNOWN"}

\* one corpus of one play, with every cast of at most MaxCast characters
GenderWorlds ==
    {UpstreamOf(<<CorpusOf(<<"a">>,
                    <<PlayOf(ListedPlay(<<"p">>),
                             [i \in DOMAIN g |-> Character(<<"c">>, <<"C">>, g[i], 1)])>>)>>) :
        g \in UNION {[1..k -> Genders] : k \in 0..MaxCast}}

GenderCalls ==
    {SearchCall(SearchArgs(None, None, None, <<>>, <<>>, <<gender_filter>>)) :
        gender_filter \in {"female_dominated", "male_dominated", "balanced"}}

NextGender ==
    \/ Receive(GenderCalls, GenderWorlds)
    \/ Respond
    \/ SearchPlaysCall(SearchScripts)

SpecGender == Init /\ [][NextGender]_vars

(***************************************************************************)
(* Properties.  A call is observed when its handler has returned           *)
(* (pc = "done"): request holds the call, upstream what the service        *)
(* served, requests the upstream requests issued, response the result.     *)
(***************************************************************************)
Handlers ==
    NoArgsHandlers \cup CorpusHandlers \cup PlayHandlers
        \cup {"get_plays_with_character", "search_plays", "compare_plays",
              "find_character_across_plays"}

Done(handlers) == pc = "done" /\ request.handler \in handlers

Searched == Done({"search_plays"}) /\ ~IsError(response.value)

AllOk == \A i \in DOMAIN requests : requests[i].out = "ok"

\* the requests issued at a call site for a corpus and a play
RequestsFor(site, corpus, play) ==
    {i \in DOMAIN requests : /\ requests[i].site = site
                             /\ requests[i].ep.corpus = corpus
                             /\ requests[i].ep.play = play}

FetchFailed(site, corpus, play) ==
    \E i \in RequestsFor(site, corpus, play) : requests[i].out # "ok"

FetchSucceeded(site, corpus, play) ==
    \E i \in RequestsFor(site, corpus, play) : requests[i].out = "ok"

\* is the play p of corpus c among the results of the search
InResults(c, p) ==
    \E i \in DOMAIN response.value.results :
        /\ response.value.results[i].corpus = c
        /\ Get(response.value.results[i].play, "name", None) = p

\* the pattern ^[A-Za-z0-9_-]+$ read as the whole string
WellFormedName(s) == Len(s) >= 1 /\ \A i \in 1..Len(s) : s[i] \in NameChars

\* the pattern ^Q[0-9]+$ read as the whole string
WellFormedWikidata(s) ==
    Len(s) >= 2 /\ s[1] = "Q" /\ \A i \in 2..Len(s) : s[i] \in Digits

\* C1: every resource accessor and every tool, whatever its arguments and
\* whatever the outcomes (success, non-2xx, timeout, network error, malformed
\* body) of the upstream requests it issues, returns a mapping: no exception
\* escapes the handler.
C1_Containment ==
    Done(Handlers) =>
        /\ response.status = "returned"
        /\ \A k \in DOMAIN response.value : k \in STRING

\* a tool whose fifth request gets a malformed body after a failed first one
C1_Witness ==
    /\ Done({"analyze_full_text"})
    /\ Len(requests) >= 5
    /\ requests[1].out = "neterr"
    /\ requests[5].out = "malformed"
    /\ response.status = "returned"
    /\ IsError(response.value)

FailsHard(i) == requests[i].out \in {"http500", "timeout"}

\* C2 as stated: a handler one of whose upstream requests is answered 500 or
\* times out returns a mapping whose only key is `error`.
C2_AnyFailureIsError ==
    (Done(Handlers) /\ \E i \in DOMAIN requests : FailsHard(i))
        => DOMAIN response.value = {"error"}

\* the call sites whose failure the handler survives by design: the per-corpus
\* and per-play fetches of search_plays and find_character_across_plays, the
\* explicit relations of analyze_character_relations, the TEI document of
\* analyze_full_text (the plain text stands in) and its plain text when the
\* TEI document was got
ToleratedSites ==
    {"search_plays:plays", "search_plays:character_name", "search_plays:gender_filter",
     "search_plays:top_results", "find_character_across_plays:characters",
     "analyze_character_relations:relations_csv", "analyze_full_text:tei",
     "analyze_full_text:text"}

\* C2 amended: a handler one of whose upstream requests, other than at a
\* tolerated call site, is answered 500 or times out returns a mapping whose
\* only key is `error`; and whenever a handler returns `error` it returns no
\* other key.
C2_UntoleratedFailureIsError ==
    Done(Handlers) =>
        /\ (\E i \in DOMAIN requests :
                FailsHard(i) /\ requests[i].site \notin ToleratedSites)
            => DOMAIN response.value = {"error"}
        /\ IsError(response.value) => DOMAIN response.value = {"error"}

\* a tool whose second request is answered 500
C2_Witness ==
    /\ Done({"analyze_play_structure"})
    /\ Len(requests) = 2
    /\ requests[1].out = "ok"
    /\ requests[2].out = "http500"
    /\ DOMAIN response.value = {"error"}

NameParams ==
    {"corpus_name", "play_name", "corpus_name1", "play_name1", "corpus_name2", "play_name2"}

IdentifierHandlers ==
    CorpusHandlers \cup PlayHandlers \cup {"compare_plays", "get_plays_with_character"}

MalformedIdentifier(args) ==
    \/ \E k \in DOMAIN args \cap NameParams : ~WellFormedName(args[k])
    \/ \E k \in DOMAIN args \cap {"wikidata_id"} : ~WellFormedWikidata(args[k])

\* C3: a handler taking a corpus name, a play name or a Wikidata id, called
\* with a malformed one (empty, a disallowed character, not Q+digits), returns
\* an `error` mapping and issues no upstream request.
C3_ValidationFirst ==
    (Done(IdentifierHandlers) /\ MalformedIdentifier(request.args))
        => IsError(response.value) /\ requests = <<>>

\* C4: validate_name returns unchanged every non-empty string of letters,
\* digits, hyphens and underscores, and fails on every other string, the
\* empty one and one ending in a newline included.
C4_NameValidator ==
    Done({"validate_name"}) =>
        IF WellFormedName(request.args.name)
        THEN response = [status |-> "returned", value |-> request.args.name]
        ELSE response.status = "raised" /\ response.value.type = "ValueError"

\* C5: the Wikidata id validator returns unchanged every string that is Q
\* followed by one or more digits and fails on every other string.
C5_WikidataValidator ==
    Done({"validate_wikidata_id"}) =>
        IF WellFormedWikidata(request.args.wikidata_id)
        THEN response = [status |-> "returned", value |-> request.args.wikidata_id]
        ELSE response.status = "raised" /\ response.value.type = "ValueError"

\* "Q44" is accepted
C5_Witness ==
    /\ Done({"validate_wikidata_id"})
    /\ request.args.wikidata_id = <<"Q", "4", "4">>
    /\ response = [status |-> "returned", value |-> <<"Q", "4", "4">>]

\* C6: in every non-error result of search_plays, filters_applied holds the
\* filter values as the caller supplied them, corpus_name included.
C6_FiltersEcho ==
    Searched =>
        \A k \in {"query", "corpus_name", "character_name", "country", "language",
                  "author", "gender_filter"} :
            response.value.filters_applied[k] = request.args[k]

\* does a corpus of this name fall under the caller's corpus_name
Targeted(name) ==
    Truthy(request.args.corpus_name)
        => Contains(Lower(name), Lower(request.args.corpus_name))

\* C7: with a corpus_name, exactly the corpora whose name contains it, case
\* ignored, are searched (each once), so every result's corpus contains it;
\* with none, all listed corpora are searched.
C7_TargetCorpora ==
    Searched =>
        /\ \A i \in DOMAIN upstream.corpora :
                Cardinality(RequestsFor("search_plays:plays",
                                        upstream.corpora[i].name, <<>>))
                    = IF Targeted(upstream.corpora[i].name) THEN 1 ELSE 0
        /\ Cardinality({i \in DOMAIN requests : requests[i].site = "search_plays:plays"})
                = Cardinality({i \in DOMAIN upstream.corpora :
                                    Targeted(upstream.corpora[i].name)})
        /\ \A i \in DOMAIN response.value.results :
                Targeted(response.value.results[i].corpus)

\* "B" searches the corpus "ab" and not the corpus "c"
C7_Witness ==
    /\ Searched
    /\ request.args.corpus_name = <<"B">>
    /\ Len(upstream.corpora) = 2
    /\ upstream.corpora[2].name = <<"c">>
    /\ response.value.count = 1
    /\ response.value.results[1].corpus = <<"a", "b">>

\* the first present of yearNormalized, yearWritten, yearPrinted
FirstPresentYear(play) ==
    play[YearKeys[CHOOSE i \in DOMAIN YearKeys :
                    /\ YearKeys[i] \in DOMAIN play
                    /\ \A j \in 1..(i - 1) : YearKeys[j] \notin DOMAIN play]]

PassesYearFilter(play, year_from, year_to) ==
    \/ \A i \in DOMAIN YearKeys : YearKeys[i] \notin DOMAIN play
    \/ /\ \E i \in DOMAIN YearKeys : YearKeys[i] \in DOMAIN play
       /\ year_from # <<>> => year_from[1] <= FirstPresentYear(play)
       /\ year_to # <<>> => FirstPresentYear(play) <= year_to[1]

\* C8: with year_from and/or year_to supplied, a play passes the year filter
\* iff none of its three year fields is present or the first present one lies
\* within the bounds, a missing bound being unbounded.
C8_YearFilter ==
    (Searched /\ AllOk /\ (request.args.year_from # <<>> \/ request.args.year_to # <<>>))
        => \A i \in DOMAIN upstream.corpora :
           \A j \in DOMAIN upstream.corpora[i].plays :
                InResults(upstream.corpora[i].name, upstream.corpora[i].plays[j].summary.name)
                    <=> PassesYearFilter(upstream.corpora[i].plays[j].summary,
                                         request.args.year_from, request.args.year_to)

\* the plays the upstream holds, as pairs of indices (corpus, play)
UpstreamPlays ==
    UNION {{<<i, j>> : j \in DOMAIN upstream.corpora[i].plays} :
            i \in DOMAIN upstream.corpora}

CorpusAt(ij) == upstream.corpora[ij[1]].name

PlayAt(ij) == upstream.corpora[ij[1]].plays[ij[2]].summary.name

CastAt(ij) == upstream.corpora[ij[1]].plays[ij[2]].cast

\* if the corpora listing fails the call returns an `error` mapping at once
CorporaFailureAborts ==
    requests[1].out # "ok" => DOMAIN response.value = {"error"} /\ Len(requests) = 1

\* a corpus whose plays could not be fetched contributes no result, and every
\* listed corpus is asked for its plays all the same
PlaysFailureSkipsCorpus ==
    ~IsError(response.value) =>
        \A i \in DOMAIN upstream.corpora :
            /\ Cardinality(RequestsFor("search_plays:plays",
                                       upstream.corpora[i].name, <<>>)) = 1
            /\ FetchFailed("search_plays:plays", upstream.corpora[i].name, <<>>)
                => \A j \in DOMAIN response.value.results :
                        response.value.results[j].corpus # upstream.corpora[i].name

\* the search goes on with the other plays: every play of a corpus whose
\* plays were fetched is put to the first filter in force, or returned when
\* none is
SearchContinues ==
    ~IsError(response.value) =>
        \A ij \in UpstreamPlays :
            FetchSucceeded("search_plays:plays", CorpusAt(ij), <<>>) =>
                IF Truthy(request.args.character_name)
                THEN Cardinality(RequestsFor("search_plays:character_name",
                                             CorpusAt(ij), PlayAt(ij))) = 1
                ELSE IF TruthyWord(request.args.gender_filter)
                THEN Cardinality(RequestsFor("search_plays:gender_filter",
                                             CorpusAt(ij), PlayAt(ij))) = 1
                ELSE InResults(CorpusAt(ij), PlayAt(ij))

\* a play whose character list could not be fetched for the character_name
\* filter is excluded
CharacterFailureExcludes ==
    ~IsError(response.value) =>
        \A ij \in UpstreamPlays :
            FetchFailed("search_plays:character_name", CorpusAt(ij), PlayAt(ij))
                => ~InResults(CorpusAt(ij), PlayAt(ij))

Females(cast) == Cardinality({i \in DOMAIN cast : cast[i].gender = "FEMALE"})

Males(cast) == Cardinality({i \in DOMAIN cast : cast[i].gender = "MALE"})

\* f/(f+m) against 0.5, 0.4 and 0.6, in integers
PassesGenderFilter(gender_filter, f, m) ==
    \/ f + m = 0
    \/ gender_filter = "female_dominated" /\ 2 * f > f + m
    \/ gender_filter = "male_dominated" /\ 2 * f < f + m
    \/ gender_filter = "balanced" /\ 4 * (f + m) <= 10 * f /\ 10 * f <= 6 * (f + m)

\* C10: a play whose character list was fetched for the gender_filter, with f
\* FEMALE and m MALE characters, passes when f+m = 0; otherwise it passes
\* female_dominated iff f/(f+m) > 0.5, male_dominated iff f/(f+m) < 0.5 and
\* balanced iff 0.4 <= f/(f+m) <= 0.6.
C10_GenderFilter ==
    (Searched /\ request.args.gender_filter # <<>>) =>
        \A ij \in UpstreamPlays :
            FetchSucceeded("search_plays:gender_filter", CorpusAt(ij), PlayAt(ij))
                => (InResults(CorpusAt(ij), PlayAt(ij))
                        <=> PassesGenderFilter(request.args.gender_filter[1],
                                               Females(CastAt(ij)), Males(CastAt(ij))))

\* two women and three men (a ratio of exactly 0.4) pass `balanced`
C10_Witness ==
    /\ Searched
    /\ request.args.gender_filter = <<"balanced">>
    /\ UpstreamPlays = {<<1, 1>>}
    /\ Females(CastAt(<<1, 1>>)) = 2
    /\ Males(CastAt(<<1, 1>>)) = 3
    /\ FetchSucceeded("search_plays:gender_filter", <<"a">>, <<"p">>)
    /\ InResults(<<"a">>, <<"p">>)

(***************************************************************************)
(* search_plays over a corpus of many plays: results and top_results.      *)
(***************************************************************************)
\* most plays of the corpus searched
MaxPlays == 6

\* the play "p<i>", titled "t" when i is odd and "u" when i is even
TitledPlay(i) ==
    [name |-> <<"p">> \o Decimal(i),
     title |-> IF i % 2 = 1 THEN <<"t">> ELSE <<"u">>,
     authors |-> <<[name |-> <<"s">>]>>,
     yearNormalized |-> 2, originalLanguage |-> <<"e">>]

\* one corpus "a" of the plays p1 .. pk
TopWorlds ==
    {UpstreamOf(<<CorpusOf(<<"a">>, [i \in 1..k |-> PlayOf(TitledPlay(i), <<Hamlet>>)])>>) :
        k \in 0..MaxPlays}

TopCalls ==
    {SearchCall(SearchArgs(query, None, None, <<>>, <<>>, <<>>)) :
        query \in {None, <<"T">>, <<"u">>, <<"x">>}}

NextTop ==
    \/ Receive(TopCalls, TopWorlds)
    \/ Respond
    \/ SearchPlaysCall(SearchScripts)

SpecTop == Init /\ [][NextTop]_vars

\* the listed plays of the corpora whose play listing was fetched, in corpus
\* then play enumeration order, as <<corpus index, play index>>
RECURSIVE Enumerated(_)
Enumerated(i) ==
    IF i > Len(upstream.corpora) THEN <<>>
    ELSE (IF FetchFailed("search_plays:plays", upstream.corpora[i].name, <<>>)
          THEN <<>>
          ELSE [j \in 1..Len(upstream.corpora[i].plays) |-> <<i, j>>])
         \o Enumerated(i + 1)

\* the query filter as the spec words it: the text occurs, case-insensitively,
\* in the title, an author's name, the subtitle or the original title
PassesQuery(play, query) ==
    \/ ~Truthy(query)
    \/ \E field \in {Get(play, "title", <<>>), Get(play, "subtitle", <<>>),
                      Get(play, "originalTitle", <<>>)}
                     \cup {Get(play.authors[k], "name", <<>>) : k \in DOMAIN play.authors} :
            Contains(Lower(field), Lower(query))

Matching ==
    SelectSeq(Enumerated(1),
              LAMBDA ij : PassesQuery(upstream.corpora[ij[1]].plays[ij[2]].summary,
                                      request.args.query))

\* `results` is the matching plays in enumeration order, `count` its length
ResultsAreTheMatches ==
    /\ response.value.count = Len(response.value.results)
    /\ response.value.results =
            [n \in 1..Len(Matching) |->
                [corpus |-> upstream.corpora[Matching[n][1]].name,
                 play   |-> upstream.corpora[Matching[n][1]].plays[Matching[n][2]].summary]]

\* is the n-th entry of top_results the detail of one of the first five results
AmongFirstFive(n) ==
    \E i \in 1..5 :
        /\ i <= Len(response.value.results)
        /\ response.value.results[i].corpus = response.value.top_results[n].corpus
        /\ Get(response.value.results[i].play, "name", None)
                = response.value.top_results[n].play_name

\* C11: in every non-error result of search_plays, `results` holds every play
\* that passed the supplied filters, in corpus then play enumeration order,
\* `count` is the length of `results`, and `top_results` has at most 5
\* entries, each the detail of one of the first 5 entries of `results`.
C11_TopResults ==
    (Searched /\ request.args \in {c.args : c \in TopCalls}) =>
        /\ ResultsAreTheMatches
        /\ Len(response.value.top_results) <= 5
        /\ \A n \in DOMAIN response.value.top_results : AmongFirstFive(n)

(***************************************************************************)
(* analyze_full_text over plays of varying text, TEI document and          *)
(* metadata, each of its requests with every outcome.                      *)
(***************************************************************************)
\* TEI documents: a full one, one with neither title nor speeches, and a
\* body that is not well-formed XML
TeiSamples ==
    {[wellformed |-> TRUE, title |-> <<" ", "T">>, authors |-> <<<<"s">>>>,
      acts |-> 1, scenes |-> 2,
      speeches |-> <<<<"h", "i">>>>, stage_directions |-> <<<<"e", "x">>>>],
     [wellformed |-> TRUE, title |-> None, authors |-> <<>>,
      acts |-> 0, scenes |-> 0, speeches |-> <<>>, stage_directions |-> <<>>],
     [wellformed |-> FALSE]}

\* spoken texts and stage directions, with and without a header inside
SpokenSamples == {<<"h", "i">>, <<"\n", "\n">> \o DialogueHeader}

StageSamples == {<<"e", "x">>, <<"\n", "\n">> \o StageHeader}

\* the listed object of play "p", with a title or without one
Untitled == [name |-> <<"p">>, authors |-> <<>>, yearNormalized |-> 2]

TextWorlds ==
    {UpstreamOf(<<CorpusOf(<<"a">>,
                    <<[PlayOf(summary, <<Hamlet, Ophelia>>)
                          EXCEPT !.tei = tei, !.spoken = spoken, !.stage = stage]>>)>>) :
        summary \in {ListedPlay(<<"p">>), Untitled},
        tei \in TeiSamples, spoken \in SpokenSamples, stage \in StageSamples}

TextCalls ==
    {Call("analyze_full_text", [corpus_name |-> <<"a">>, play_name |-> p]) :
        p \in {<<"p">>, <<"q">>, <<"p", "/">>}}

NextText ==
    \/ Receive(TextCalls, TextWorlds)
    \/ Respond
    \/ AnalyzeFullTextCall(ToolScripts)

SpecText == Init /\ [][NextText]_vars

\* analyze_full_text has returned a result that is not an error
Analyzed == Done({"analyze_full_text"}) /\ ~IsError(response.value)

\* the play the call names, as the upstream holds it
NamedPlay == ThePlay(upstream, request.args.corpus_name, request.args.play_name)

\* a ratio is a quotient of two counts, or None
IsQuotient(r) == DOMAIN r = {"num", "den"}

\* C12: in every non-error result of analyze_full_text the ratio is None when
\* the text holds no stage-direction header, and otherwise the number of
\* dialogue headers divided by the number of stage-direction headers.
C12_RatioNoneWithoutHeader ==
    Analyzed =>
        LET dialogues  == Count(response.value.text, <<"\n", "\n">> \o DialogueHeader)
            directions == Count(response.value.text, <<"\n", "\n">> \o StageHeader)
            ratio      == response.value.analysis.dialogue_to_direction_ratio
        IN  IF directions = 0 THEN ~IsQuotient(ratio)
            ELSE ratio = [num |-> dialogues, den |-> directions]

\* C13: whenever analyze_full_text succeeds, `play` carries the metadata the
\* play accessor returned: it is not an empty mapping, and it has the title
\* of the upstream play when that play has one.
C13_PlayMetadata ==
    Analyzed =>
        /\ DOMAIN response.value.play # {}
        /\ "title" \in DOMAIN NamedPlay.summary
            => /\ "title" \in DOMAIN response.value.play
               /\ response.value.play.title = NamedPlay.summary.title

\* the requests of the call at a site, for an endpoint kind
RequestsOf(site, kind) ==
    {i \in DOMAIN requests : requests[i].site = site /\ requests[i].ep.kind = kind}

\* a text endpoint is fetched when the answer is 2xx, whatever the body; a
\* JSON endpoint when the body is parsed too
GotText(i) == requests[i].out \in {"ok", "malformed"}

GotJson(i) == requests[i].out = "ok"

TeiFailed == \E i \in RequestsOf("analyze_full_text:tei", "tei") : ~GotText(i)

TeiFetched == \E i \in RequestsOf("analyze_full_text:tei", "tei") : GotText(i)

\* the plain-text accessor behind `site` got both of its texts
PlainTextFetched(site) ==
    /\ \E i \in RequestsOf(site, "spoken-text") : GotText(i)
    /\ \E i \in RequestsOf(site, "stage-directions") : GotText(i)

PlainTextFailed(site) ==
    \/ \E i \in RequestsOf(site, "spoken-text") : ~GotText(i)
    \/ \E i \in RequestsOf(site, "stage-directions") : ~GotText(i)

PlayFetched == \E i \in RequestsOf("analyze_full_text", "play") : GotJson(i)

CharactersFetched == \E i \in RequestsOf("analyze_full_text", "characters") : GotJson(i)

\* C14: if the TEI fetch fails the plain-text accessor is used instead, the
\* result has no `tei_analysis` block, and the call succeeds when the plain
\* text, the play and the characters are fetched; if the TEI fetch and the
\* plain-text fetch both fail the call returns an `error` mapping; if the TEI
\* fetch succeeds, a result that is not an error has a `tei_analysis` block.
C14_TeiFallback ==
    Done({"analyze_full_text"}) =>
        /\ TeiFailed =>
                \/ PlainTextFetched("analyze_full_text:fallback")
                \/ PlainTextFailed("analyze_full_text:fallback")
        /\ (/\ TeiFailed
            /\ PlainTextFetched("analyze_full_text:fallback")
            /\ PlayFetched
            /\ CharactersFetched)
            => /\ ~IsError(response.value)
               /\ "tei_analysis" \notin DOMAIN response.value
               /\ AllOk => response.value.text
                                = FullTextOf(NamedPlay.spoken, NamedPlay.stage)
        /\ (TeiFailed /\ ~IsError(response.value))
            => "tei_analysis" \notin DOMAIN response.value
        /\ (TeiFailed /\ PlainTextFailed("analyze_full_text:fallback"))
            => IsError(response.value)
        /\ (TeiFetched /\ ~IsError(response.value))
            => "tei_analysis" \in DOMAIN response.value

\* the TEI fetch times out and the plain text stands in
C14_Witness ==
    /\ Analyzed
    /\ Len(requests) = 5
    /\ requests[1].ep.kind = "tei"
    /\ requests[1].out = "timeout"
    /\ PlainTextFetched("analyze_full_text:fallback")
    /\ "tei_analysis" \notin DOMAIN response.value
    /\ response.value.text = FullTextOf(NamedPlay.spoken, NamedPlay.stage)

\* str(e) of the exception a failed request raises
ErrorOf(r) == <<IF r.out = "malformed" THEN "Expecting value" ELSE r.out, r.ep.kind>>

\* the text of the play was obtained, from the TEI path or the fallback
TextObtained == TeiFetched \/ PlainTextFetched("analyze_full_text:fallback")

\* C15: on either path (TEI available or not) the play metadata and the
\* character list are fetched, and if either fetch fails the call returns a
\* mapping whose only key is `error`, with the error of that fetch, whatever
\* the TEI and plain-text fetches returned.
C15_RequiredFetches ==
    (Done({"analyze_full_text"}) /\ TextObtained) =>
        /\ RequestsOf("analyze_full_text", "play") # {}
        /\ \A i \in RequestsOf("analyze_full_text", "play") :
                ~GotJson(i) => response.value = [error |-> ErrorOf(requests[i])]
        /\ PlayFetched => RequestsOf("analyze_full_text", "characters") # {}
        /\ \A i \in RequestsOf("analyze_full_text", "characters") :
                ~GotJson(i) => response.value = [error |-> ErrorOf(requests[i])]
        /\ (PlayFetched /\ CharactersFetched) => ~IsError(response.value)

\* the TEI document was got, the plain text after it was not, the play was,
\* and the character list is answered 500
C15_Witness ==
    /\ Done({"analyze_full_text"})
    /\ TeiFetched
    /\ PlainTextFailed("analyze_full_text:text")
    /\ PlayFetched
    /\ \E i \in RequestsOf("analyze_full_text", "characters") : requests[i].out = "http500"
    /\ response.value = [error |-> <<"http500", "characters">>]

\* the TEI fetch succeeded with a body that is not well-formed XML
ParseFailed ==
    \E i \in RequestsOf("analyze_full_text:tei", "tei") :
        \/ requests[i].out = "malformed"
        \/ requests[i].out = "ok" /\ ~NamedPlay.tei.wellformed

\* C16 as stated: a TEI body that is not well-formed XML does not make the
\* call an error, and the call is demoted to the no-TEI path: its result is
\* the one of that path, without the XML-derived block.
C16_ParseFailureIsNoTei ==
    (Done({"analyze_full_text"}) /\ ParseFailed) =>
        /\ (PlayFetched /\ CharactersFetched) => ~IsError(response.value)
        /\ ~IsError(response.value) => "tei_analysis" \notin DOMAIN response.value

\* C16 amended: a TEI body that is not well-formed XML does not make the call
\* an error; the call stays on the TEI path with a `tei_analysis` block whose
\* title and authors are "Unknown", whose act, scene, speech and
\* stage-direction counts are 0 and whose two samples are empty; a failure of
\* the plain-text fetch is still tolerated (the text is then empty).
C16_ParseFailureZeroed ==
    (Done({"analyze_full_text"}) /\ ParseFailed) =>
        /\ (PlayFetched /\ CharactersFetched) => ~IsError(response.value)
        /\ ~IsError(response.value) =>
            /\ "tei_analysis" \in DOMAIN response.value
            /\ response.value.tei_analysis =
                    [title |-> Unknown, authors |-> <<Unknown>>,
                     structure |-> [acts |-> 0, scenes |-> 0, speeches |-> 0,
                                    stage_directions |-> 0],
                     text_sample |-> [first_speech |-> <<>>,
                                      first_stage_direction |-> <<>>]]
            /\ PlainTextFailed("analyze_full_text:text") => response.value.text = <<>>

\* a malformed TEI body and a failed plain-text fetch, yet a result
C16_Witness ==
    /\ Analyzed
    /\ requests[1].ep.kind = "tei"
    /\ requests[1].out = "malformed"
    /\ PlainTextFailed("analyze_full_text:text")
    /\ response.value.tei_analysis.structure.acts = 0
    /\ response.value.text = <<>>

(***************************************************************************)
(* analyze_character_relations over co-occurrence CSVs of varying length   *)
(* and content, each of its requests with every outcome.                   *)
(***************************************************************************)
\* most data rows of the co-occurrence CSV
MaxRows == 11
\* largest weight of a row
MaxWeight == 12

CsvHeader == <<<<"S">>, <<"T">>, <<"G">>, <<"W">>>>

\* the i-th data row of a CSV of the given pattern: "spread" has weights all
\* over the range and alternates a known source id with an unknown one;
\* "ragged" has short rows, non-integer and negative weights; "flat" has one
\* weight throughout
DataRow(pattern, i) ==
    CASE pattern = "spread" ->
            <<IF i % 2 = 1 THEN <<"h">> ELSE <<"u">>, <<"x">>, <<"o">>,
              Decimal((i * 7) % (MaxWeight + 1))>>
      [] pattern = "ragged" ->
            IF i % 4 = 0 THEN <<<<"h">>, <<"x">>, <<"o">>>>
            ELSE IF i % 4 = 1 THEN <<<<"o">>, <<"x">>, <<"v">>, <<"w">>>>
            ELSE IF i % 4 = 2 THEN <<<<"h">>, <<"x">>, <<"o">>, Decimal(0 - i)>>
            ELSE <<<<"u">>, <<"x">>, <<"h">>, Decimal(i), <<"z">>>>
      [] pattern = "flat" -> <<<<"h">>, <<"x">>, <<"o">>, <<"1">>>>

CsvOf(pattern, k) == <<CsvHeader>> \o [i \in 1..k |-> DataRow(pattern, i)]

RelationWorlds ==
    {UpstreamOf(<<CorpusOf(<<"a">>,
                    <<[PlayOf(ListedPlay(<<"p">>), <<Hamlet, Ophelia>>)
                          EXCEPT !.network = network]>>)>>) :
        network \in {<<>>} \cup {CsvOf(pattern, k) :
                                    pattern \in {"spread", "ragged", "flat"},
                                    k \in 0..MaxRows}}

RelationCalls ==
    {Call("analyze_character_relations", [corpus_name |-> <<"a">>, play_name |-> p]) :
        p \in {<<"p">>, <<"q">>, <<"p", "/">>}}

NextRelations ==
    \/ Receive(RelationCalls, RelationWorlds)
    \/ Respond
    \/ AnalyzeCharacterRelationsCall(ToolScripts)

SpecRelations == Init /\ [][NextRelations]_vars

\* analyze_character_relations has returned a result that is not an error
Related == Done({"analyze_character_relations"}) /\ ~IsError(response.value)

\* the co-occurrence CSV was served as the upstream holds it
NetworkServed ==
    \E i \in RequestsOf("analyze_character_relations", "networkdata/csv") :
        requests[i].out = "ok"

\* the rows of the served CSV that count: not the header, four columns or more
CountedRows ==
    {i \in DOMAIN NamedPlay.network : i > 1 /\ Len(NamedPlay.network[i]) >= 4}

NonIncreasing(list) ==
    \A i, j \in DOMAIN list : i <= j => list[i].weight >= list[j].weight

\* how often each element occurs in a list
Occurrences(list) ==
    [x \in {list[i] : i \in DOMAIN list} |-> Cardinality({i \in DOMAIN list : list[i] = x})]

\* the whole sorted order, put together from its first ten and its last ten
\* entries (the lists of at most twenty relations)
WholeOrder(strongest, weakest, n) ==
    IF n <= 10 THEN strongest
    ELSE strongest \o SubSeq(weakest, 21 - n, 10)

\* C17: the relations parsed from the co-occurrence CSV are sorted by weight
\* in non-increasing order; strongestRelations is the first min(10, n) of
\* that order, weakestRelations its last 10 when n >= 10 and all n when
\* n < 10; totalRelations is n.
C17_RelationsOrdering ==
    (Related /\ NetworkServed) =>
        LET n         == Cardinality(CountedRows)
            strongest == response.value.strongestRelations
            weakest   == response.value.weakestRelations
            whole     == WholeOrder(strongest, weakest, n)
        IN  /\ response.value.totalRelations = n
            /\ Len(strongest) = (IF n < 10 THEN n ELSE 10)
            /\ Len(weakest) = (IF n < 10 THEN n ELSE 10)
            /\ n < 10 => weakest = strongest
            /\ n >= 10 => SubSeq(strongest, n - 9, 10) = SubSeq(weakest, 1, 20 - n)
            /\ NonIncreasing(strongest)
            /\ NonIncreasing(weakest)
            /\ NonIncreasing(whole)
            /\ Len(whole) = n
            /\ Occurrences(whole)
                    = Occurrences(RelationsOf(NamedPlay.network,
                                              Body(upstream, Ep("characters",
                                                                request.args.corpus_name,
                                                                request.args.play_name))))

\* eleven relations of differing weights: the two lists differ
C17_Witness ==
    /\ Related
    /\ NetworkServed
    /\ response.value.totalRelations = 11
    /\ Len(response.value.strongestRelations) = 10
    /\ response.value.strongestRelations # response.value.weakestRelations
    /\ response.value.strongestRelations[1].weight > response.value.weakestRelations[10].weight

\* the character list the upstream holds for the play the call names
Cast == NamedPlay.cast

\* the name the character list gives an id, and the id itself when no
\* character has it
Resolved(id) ==
    IF \E k \in DOMAIN Cast : Cast[k].id = id
    THEN Cast[CHOOSE k \in DOMAIN Cast : Cast[k].id = id].name
    ELSE id

\* the integer a cell spells in decimal, 0 when it spells none
IntegerOr0(cell) ==
    IF \E w \in (0 - MaxRows - MaxWeight)..(MaxRows + MaxWeight) : Decimal(w) = cell
    THEN CHOOSE w \in (0 - MaxRows - MaxWeight)..(MaxRows + MaxWeight) : Decimal(w) = cell
    ELSE 0

\* the relation a data row must give
Expected(row) ==
    [source |-> Resolved(row[1]), source_id |-> row[1],
     target |-> Resolved(row[3]), target_id |-> row[3],
     weight |-> IntegerOr0(row[4])]

Emitted ==
    {response.value.strongestRelations[i] : i \in DOMAIN response.value.strongestRelations}
        \cup
    {response.value.weakestRelations[i] : i \in DOMAIN response.value.weakestRelations}

RequiredFetchFailed ==
    \/ \E i \in RequestsOf("analyze_character_relations", "play") : ~GotJson(i)
    \/ \E i \in RequestsOf("analyze_character_relations", "characters") : ~GotJson(i)
    \/ \E i \in RequestsOf("analyze_character_relations", "networkdata/csv") : ~GotText(i)
    \/ \E i \in RequestsOf("analyze_character_relations", "metrics") : ~GotJson(i)

\* the fetch of the explicit relations failed: a network error, a timeout, a
\* status other than 200, a body that is no CSV of relations
FormalFetchFailed ==
    \E i \in RequestsOf("analyze_character_relations:relations_csv", "relations/csv") :
        requests[i].out # "ok"

\* C19: if the fetch of the explicit relations CSV fails in any way,
\* formalRelations is the empty list and the call still returns its full
\* success payload; a failure of the play, characters, network-CSV or metrics
\* fetch makes the result an `error` mapping.
C19_BestEffortRelations ==
    Done({"analyze_character_relations"}) =>
        /\ RequiredFetchFailed => DOMAIN response.value = {"error"}
        /\ (FormalFetchFailed /\ ~RequiredFetchFailed)
            => /\ DOMAIN response.value =
                    {"play", "totalCharacters", "totalRelations", "strongestRelations",
                     "weakestRelations", "formalRelations", "metrics"}
               /\ response.value.formalRelations = <<>>
               /\ response.value.metrics = NamedPlay.metrics
        /\ (Related /\ ~FormalFetchFailed)
            => response.value.formalRelations
                    = <<[source |-> <<"H">>, target |-> <<"O">>, type |-> <<"p">>]>>

\* the explicit relations time out and the tool still reports
C19_Witness ==
    /\ Related
    /\ Len(requests) = 5
    /\ requests[4].ep.kind = "relations/csv"
    /\ requests[4].out = "timeout"
    /\ response.value.formalRelations = <<>>
    /\ response.value.totalRelations > 0

(***************************************************************************)
(* find_character_across_plays over two corpora of three plays, each of    *)
(* its requests with every outcome.                                        *)
(***************************************************************************)
FindCalls ==
    {Call("find_character_across_plays", [character_name |-> character_name]) :
        character_name \in {<<"h">>, <<"O">>, <<"x">>, <<>>}}

NextFind ==
    \/ Receive(FindCalls, FailureWorlds)
    \/ Respond
    \/ FindCharacterAcrossPlaysCall(ToolScripts)

SpecFind == Init /\ [][NextFind]_vars

\* the listing of the corpora and of the plays of each corpus were fetched
ListingsFetched ==
    /\ RequestsOf("find_character_across_plays", "corpora") # {}
    /\ \A i \in DOMAIN requests :
            requests[i].site = "find_character_across_plays" => GotJson(i)

\* the fetch of the character list of a play failed
CastFetchFailed(corpus, play) ==
    \E i \in DOMAIN requests :
        /\ requests[i].site = "find_character_across_plays:characters"
        /\ requests[i].ep.corpus = corpus
        /\ requests[i].ep.play = play
        /\ ~GotJson(i)

\* does the name contain the text, case-insensitively
NameContains(name, text) == Contains(Lower(name), Lower(text))

\* the characters to be matched from <<corpus i, play j, character k>> on,
\* in corpus, play and character enumeration order
RECURSIVE MatchesFrom(_, _, _)
MatchesFrom(i, j, k) ==
    IF i > Len(upstream.corpora) THEN <<>>
    ELSE IF j > Len(upstream.corpora[i].plays) THEN MatchesFrom(i + 1, 1, 1)
    ELSE IF \/ k > Len(upstream.corpora[i].plays[j].cast)
            \/ CastFetchFailed(upstream.corpora[i].name,
                               upstream.corpora[i].plays[j].summary.name)
    THEN MatchesFrom(i, j + 1, 1)
    ELSE (IF NameContains(upstream.corpora[i].plays[j].cast[k].name,
                          request.args.character_name)
          THEN <<[corpus    |-> upstream.corpora[i].name,
                  play      |-> upstream.corpora[i].plays[j].summary.title,
                  character |-> upstream.corpora[i].plays[j].cast[k].name,
                  gender    |-> upstream.corpora[i].plays[j].cast[k].gender]>>
          ELSE <<>>)
         \o MatchesFrom(i, j, k + 1)

\* C20: a failure fetching one play's character list skips that play only;
\* the result is still {matches: [...]} and holds a match for every
\* character, of every other play of every corpus, whose name contains
\* character_name case-insensitively, in corpus, play and character order.
C20_FailureIsolation ==
    (Done({"find_character_across_plays"}) /\ ListingsFetched) =>
        /\ DOMAIN response.value = {"matches"}
        /\ Len(response.value.matches) = Len(MatchesFrom(1, 1, 1))
        /\ \A n \in DOMAIN response.value.matches :
                /\ response.value.matches[n].corpus = MatchesFrom(1, 1, 1)[n].corpus
                /\ response.value.matches[n].play = MatchesFrom(1, 1, 1)[n].play
                /\ response.value.matches[n].character = MatchesFrom(1, 1, 1)[n].character
                /\ response.value.matches[n].gender = MatchesFrom(1, 1, 1)[n].gender

\* the character list of the first play is answered 500 and a character of a
\* later play is still matched
C20_Witness ==
    /\ Done({"find_character_across_plays"})
    /\ ListingsFetched
    /\ CastFetchFailed(<<"a">>, <<"p">>)
    /\ ~CastFetchFailed(<<"a">>, <<"q">>)
    /\ request.args.character_name = <<"h">>
    /\ \E n \in DOMAIN response.value.matches :
            /\ response.value.matches[n].corpus = <<"b">>
            /\ response.value.matches[n].character = <<"H">>

(***************************************************************************)
(* analyze_play_structure over casts of varying size, word counts and      *)
(* genders, each of its requests with every outcome.                       *)
(***************************************************************************)
\* largest cast of the play analysed
MaxSpeakers == 11

\* the gender of the i-th character: the three labels, another value, none
GenderAt(i) ==
    CASE i % 5 = 1 -> "MALE"
      [] i % 5 = 2 -> "FEMALE"
      [] i % 5 = 3 -> "UNKNOWN"
      [] i % 5 = 4 -> "OTHER"
      [] OTHER -> "absent"

\* the i-th character of a cast of the given pattern: "silent" has 0 words
\* throughout, "wordless" no numOfWords at all, "spread" differing counts
Speaker(pattern, i) ==
    [k \in {"id", "name"}
           \cup (IF GenderAt(i) = "absent" THEN {} ELSE {"gender"})
           \cup (IF pattern = "wordless" THEN {} ELSE {"numOfWords"}) |->
        CASE k = "id" -> <<"c">> \o Decimal(i)
          [] k = "name" -> <<"C">> \o Decimal(i)
          [] k = "gender" -> GenderAt(i)
          [] k = "numOfWords" -> IF pattern = "silent" THEN 0 ELSE (i * 5) % 7]

StructureWorlds ==
    {UpstreamOf(<<CorpusOf(<<"a">>,
                    <<PlayOf(ListedPlay(<<"p">>),
                             [i \in 1..k |-> Speaker(pattern, i)])>>)>>) :
        pattern \in {"silent", "wordless", "spread"}, k \in 0..MaxSpeakers}

StructureCalls ==
    {Call("analyze_play_structure", [corpus_name |-> <<"a">>, play_name |-> p]) :
        p \in {<<"p">>, <<"q">>, <<"p", "/">>}}

NextStructure ==
    \/ Receive(StructureCalls, StructureWorlds)
    \/ Respond
    \/ AnalyzePlayStructureCall(ToolScripts)

SpecStructure == Init /\ [][NextStructure]_vars

\* analyze_play_structure has returned a result that is not an error
Structured == Done({"analyze_play_structure"}) /\ ~IsError(response.value)

\* the words of a character, 0 when it has no word count
WordsOf(character) ==
    IF "numOfWords" \in DOMAIN character THEN character.numOfWords ELSE 0

\* the sum of the word counts of the first n characters of the cast
RECURSIVE WordsUpTo(_)
WordsUpTo(n) == IF n = 0 THEN 0 ELSE WordsUpTo(n - 1) + WordsOf(Cast[n])

\* C21: when the sum of numOfWords over the fetched characters is 0 (an empty
\* character list included) speakingDistribution is the empty list; when the
\* sum is positive speakingDistribution holds at most 10 entries sorted by
\* `words` in non-increasing order.
C21_SpeakingDistribution ==
    Structured =>
        LET total        == WordsUpTo(Len(Cast))
            distribution == response.value.speakingDistribution
        IN  /\ response.value.wordCount = total
            /\ total = 0 => distribution = <<>>
            /\ total > 0 =>
                /\ Len(distribution) <= 10
                /\ Len(distribution) = (IF Len(Cast) < 10 THEN Len(Cast) ELSE 10)
                /\ \A i, j \in DOMAIN distribution :
                        i <= j => distribution[i].words >= distribution[j].words
                /\ \A i \in DOMAIN distribution :
                        \E k \in DOMAIN Cast :
                            /\ distribution[i].character = Cast[k].name
                            /\ distribution[i].words = WordsOf(Cast[k])

\* a cast of eleven speakers gives ten entries, and a silent cast none
C21_Witness ==
    /\ Structured
    /\ Len(Cast) = 11
    /\ WordsUpTo(11) > 0
    /\ Len(response.value.speakingDistribution) = 10
    /\ response.value.speakingDistribution[1].words
            > response.value.speakingDistribution[10].words

GenderLabels == {"MALE", "FEMALE", "UNKNOWN"}

\* the characters of the cast whose gender is the label
OfGender(label) ==
    {k \in DOMAIN Cast : "gender" \in DOMAIN Cast[k] /\ Cast[k].gender = label}

\* C22: characters.byGender has exactly the keys MALE, FEMALE and UNKNOWN;
\* each bucket counts exactly the characters whose gender is that label; a
\* character of another or no gender is counted in no bucket, so the three
\* add up to at most characters.total, and to it iff every character's gender
\* is one of the three labels.
C22_GenderTally ==
    Structured =>
        LET byGender == response.value.characters.byGender
            tallied  == byGender["MALE"] + byGender["FEMALE"] + byGender["UNKNOWN"]
        IN  /\ DOMAIN byGender = GenderLabels
            /\ \A label \in GenderLabels : byGender[label] = Cardinality(OfGender(label))
            /\ response.value.characters.total = Len(Cast)
            /\ tallied <= response.value.characters.total
            /\ tallied = response.value.characters.total
                <=> \A k \in DOMAIN Cast :
                        "gender" \in DOMAIN Cast[k] /\ Cast[k].gender \in GenderLabels

\* a cast with a character of another gender and one of none
C22_Witness ==
    /\ Structured
    /\ Len(Cast) = 5
    /\ response.value.characters.total = 5
    /\ response.value.characters.byGender = [g \in GenderLabels |-> 1]

\* C25: analyze_play_structure issues upstream requests only for the play
\* detail, the play metrics and the character list, and whenever those three
\* fetches succeed it returns the structure and not an `error` mapping,
\* whatever the state of any other upstream endpoint.
C25_ThreeFetchesOnly ==
    Done({"analyze_play_structure"}) =>
        /\ \A i \in DOMAIN requests :
                requests[i].ep.kind \in {"play", "metrics", "characters"}
        /\ (/\ \E i \in RequestsOf("analyze_play_structure", "play") : GotJson(i)
            /\ \E i \in RequestsOf("analyze_play_structure", "metrics") : GotJson(i)
            /\ \E i \in RequestsOf("analyze_play_structure", "characters") : GotJson(i))
            => ~IsError(response.value)

\* the requests of the search for the character list of a play
CharacterRequests(corpus, play) ==
    {i \in DOMAIN requests : /\ requests[i].ep.kind = "characters"
                             /\ requests[i].ep.corpus = corpus
                             /\ requests[i].ep.play = play
                             /\ requests[i].site \in {"search_plays:character_name",
                                                      "search_plays:gender_filter"}}

\* C24: search_plays issues at most one request for the character list of a
\* play in one search; with both character_name and gender_filter given the
\* list is fetched once and used by both the name test and the gender test.
C24_OneCharactersRequest ==
    Done({"search_plays"}) =>
        \A ij \in UpstreamPlays :
            Cardinality(CharacterRequests(CorpusAt(ij), PlayAt(ij))) <= 1

(***************************************************************************)
(* analyze_full_text over spoken texts and stage directions that hold the  *)
(* header words at their start, inside, in part, or not at all.            *)
(***************************************************************************)
BlankLine == <<"\n", "\n">>

BodySamples ==
    {<<>>, <<"h", "i">>, <<"\n">>, BlankLine,
     DialogueHeader, StageHeader,
     BlankLine \o DialogueHeader, BlankLine \o StageHeader,
     <<"x">> \o BlankLine \o StageHeader \o <<"y">>,
     <<"\n">> \o DialogueHeader,
     BlankLine \o SubSeq(StageHeader, 1, Len(StageHeader) - 1),
     DialogueHeader \o BlankLine}

HeaderWorlds ==
    {UpstreamOf(<<CorpusOf(<<"a">>,
                    <<[PlayOf(ListedPlay(<<"p">>), <<Hamlet, Ophelia>>)
                          EXCEPT !.spoken = spoken, !.stage = stage]>>)>>) :
        spoken \in BodySamples, stage \in BodySamples}

HeaderCalls ==
    {Call("analyze_full_text", [corpus_name |-> <<"a">>, play_name |-> <<"p">>])}

NextHeaders ==
    \/ Receive(HeaderCalls, HeaderWorlds)
    \/ Respond
    \/ AnalyzeFullTextCall(SearchScripts)

SpecHeaders == Init /\ [][NextHeaders]_vars

\* the text of the result is the one get_full_text put together
Synthesized ==
    /\ Analyzed
    /\ \/ PlainTextFetched("analyze_full_text:fallback")
       \/ PlainTextFetched("analyze_full_text:text")

\* the counts of the two literals in the text of the result are 0 and 1, and
\* the ratio is 0 over 1
CountsZeroAndOne ==
    /\ response.value.text = FullTextOf(NamedPlay.spoken, NamedPlay.stage)
    /\ Count(response.value.text, BlankLine \o DialogueHeader) = 0
    /\ Count(response.value.text, BlankLine \o StageHeader) = 1
    /\ response.value.analysis.dialogue_to_direction_ratio = [num |-> 0, den |-> 1]

\* C26: for a text get_full_text put together from a spoken text and stage
\* directions neither of which holds a header literal (the "DIALOGUE:\n\n"
\* and "\n\nSTAGE DIRECTIONS:\n\n" of the synthesis, the "\n\nDIALOGUE:" and
\* "\n\nSTAGE DIRECTIONS:" of the count), analyze_full_text counts 0
\* occurrences of "\n\nDIALOGUE:" and 1 of "\n\nSTAGE DIRECTIONS:", and the
\* ratio is 0.
C26_HeaderCounts ==
    (/\ Synthesized
     /\ \A body \in {NamedPlay.spoken, NamedPlay.stage} :
            /\ ~Contains(body, BlankLine \o DialogueHeader)
            /\ ~Contains(body, BlankLine \o StageHeader)
            /\ ~Contains(body, DialogueHeader \o BlankLine))
        => CountsZeroAndOne

\* C26, amended: the same holds when neither body holds "DIALOGUE:" or
\* "STAGE DIRECTIONS:" anywhere, with or without a blank line before it.
C26_HeaderCountsWordFree ==
    (/\ Synthesized
     /\ \A body \in {NamedPlay.spoken, NamedPlay.stage} :
            /\ ~Contains(body, DialogueHeader)
            /\ ~Contains(body, StageHeader))
        => CountsZeroAndOne

\* bodies that come close to a header without holding one
C26_Witness ==
    /\ Synthesized
    /\ NamedPlay.spoken = BlankLine
    /\ NamedPlay.stage = BlankLine \o SubSeq(StageHeader, 1, Len(StageHeader) - 1)
    /\ CountsZeroAndOne

\* C27: when the TEI fetch succeeds and the plain-text fetch after it fails,
\* analyze_full_text goes on to the play and the characters and, those
\* fetched, returns a result that is not an error, with `text` the empty
\* string and analysis.text_length 0; the same failure after a failed TEI
\* fetch returns an `error` mapping; and in every result that is not an error
\* analysis.text_length is the length of `text`.
C27_PlainTextAsymmetry ==
    Done({"analyze_full_text"}) =>
        /\ (TeiFetched /\ PlainTextFailed("analyze_full_text:text")) =>
                /\ RequestsOf("analyze_full_text", "play") # {}
                /\ (PlayFetched /\ CharactersFetched) =>
                        /\ ~IsError(response.value)
                        /\ response.value.text = <<>>
                        /\ response.value.analysis.text_length = 0
        /\ (TeiFailed /\ PlainTextFailed("analyze_full_text:fallback")) =>
                /\ IsError(response.value)
                /\ RequestsOf("analyze_full_text", "play") = {}
        /\ ~IsError(response.value) =>
                response.value.analysis.text_length = Len(response.value.text)

\* a well-formed TEI document, then stage directions that time out
C27_Witness ==
    /\ Analyzed
    /\ Len(requests) = 5
    /\ requests[1].out = "ok"
    /\ NamedPlay.tei.wellformed
    /\ requests[2].out = "ok"
    /\ requests[3].ep.kind = "stage-directions"
    /\ requests[3].out = "timeout"
    /\ response.value.tei_analysis.structure.acts = 1
    /\ response.value.text = <<>>
    /\ response.value.analysis.text_length = 0

(***************************************************************************)
(* Calls in sequence: each call answered is put on record, so that a call  *)
(* can be compared with an earlier one of the same handler, arguments and  *)
(* upstream, with other calls before and between the two.                  *)
(***************************************************************************)
\* most calls on record
MaxHistory == 2

StatelessCalls ==
    {Call("get_api_info", <<>>),
     Call("get_play", [corpus_name |-> <<"a">>, play_name |-> <<"p">>]),
     SearchCall(SearchArgs(None, None, None, <<>>, <<>>, <<>>))}

StatelessWorlds == {TinyWorld, NoUpstream}

\* the first request of a call succeeds or is answered 500
StatelessScripts == Scripts(1, {"ok", "http500"})

\* Respond, with the call put on record while there is room
RespondRecorded ==
    /\ pc = "done"
    /\ pc' = "idle"
    /\ upstream' = NoUpstream
    /\ request' = NoCall
    /\ requests' = <<>>
    /\ response' = NoResponse
    /\ served' = IF Len(served) < MaxHistory
                 THEN Append(served, [request |-> request, upstream |-> upstream,
                                      requests |-> requests, response |-> response])
                 ELSE served

NextStateless ==
    \/ Receive(StatelessCalls, StatelessWorlds)
    \/ RespondRecorded
    \/ GetApiInfoCall(StatelessScripts)
    \/ GetPlayCall(StatelessScripts)
    \/ SearchPlaysCall(StatelessScripts)

SpecStateless == Init /\ [][NextStateless]_vars

\* the upstream answered the two calls alike, request by request
SameAnswers(earlier, later) ==
    \A i \in DOMAIN earlier \cap DOMAIN later : earlier[i].out = later[i].out

\* the call just answered had the handler, the arguments and the upstream
\* answers of the k-th call on record
Repeats(k) ==
    /\ served[k].request = request
    /\ served[k].upstream = upstream
    /\ SameAnswers(served[k].requests, requests)

====
